---- MODULE Spec2Model ----
(***************************************************************************)
(* Model of the virtual try-on backend: the face candidate filter of       *)
(* AdvancedFaceDetectionService, the landmark assembler, and the overlay   *)
(* compositors of the glasses, clothing and makeup services.               *)
(*                                                                         *)
(* Every service call is a pure function of its arguments, so each         *)
(* specification draws the arguments of one call in its initial state and  *)
(* has one action that runs the call and records what it returns.          *)
(***************************************************************************)
EXTENDS Integers, Sequences, FiniteSets, TLC

VARIABLES
  pc,              \* position of the call: which step has run
  width, height,   \* gray.shape of the decoded image (filter)
  faces,           \* regions returned by face_cascade.detectMultiScale
  filtered_faces,  \* the local list filtered_faces, None before the loop
  background,      \* the caller's destination buffer passed to a compositor
  overlay,         \* the overlay buffer passed to a compositor
  pos_x, pos_y,    \* the placement (x, y) passed to a compositor
  returned,        \* per compositor, what it returned (None before the call)
  face,            \* the region (x, y, w, h) passed to the landmark assembler
  brow_l, brow_r,  \* what contour extraction finds in the two eyebrow regions
  lip,             \* what contour extraction finds in the mouth region
  landmarks,       \* the dict returned by the assembler, None before the call
  glasses_faces,   \* faces found by face_cascade.detectMultiScale in apply_glasses
  eyes,            \* eyes found by eye_cascade.detectMultiScale in apply_glasses
  glasses_shape,   \* glasses_image.shape[:2], (rows, columns)
  fit,             \* the locals of apply_glasses at the resize, None before the call
  call,            \* the try-on operation that is called
  user_image,      \* the caller's image buffer passed to the operation
  product,         \* the overlay image or the colour string passed to it
  env,             \* what the libraries answer during the call
  result,          \* what the operation returned (NotCalled before)
  face_distance,   \* what face_recognition.face_distance answers
  tolerance,       \* the tolerance passed to compare_faces
  comparison,      \* the dict returned by compare_faces, None before the call
  detect_env,      \* what decoding, the detector and the extractions answer
  detection,       \* the dict returned by detect_faces_and_landmarks
  services,        \* the fields of the module-level service instances
  calls,           \* per caller, the frame of its call on a shared instance
  raw_faces,       \* the list of face boxes passed to _remove_duplicate_faces
  unique_faces,    \* the list it returned, None before the call
  request,         \* the form of a POST /process request and what processing does
  response         \* what process_tryon answers, None before the call

vars ==
  <<pc, width, height, faces, filtered_faces, background, overlay, pos_x, pos_y,
    returned, face, brow_l, brow_r, lip, landmarks, glasses_faces, eyes,
    glasses_shape, fit, call, user_image, product, env, result,
    face_distance, tolerance, comparison,
    detect_env, detection,
    services, calls,
    raw_faces, unique_faces,
    request, response>>
filterVars == <<width, height, faces, filtered_faces>>
overlayVars == <<background, overlay, pos_x, pos_y, returned>>
landmarkVars == <<face, brow_l, brow_r, lip, landmarks>>
fitVars == <<glasses_faces, eyes, glasses_shape, fit>>
tryOnVars == <<call, user_image, product, env, result>>
compareVars == <<face_distance, tolerance, comparison>>
detectVars == <<detect_env, detection>>
sharedVars == <<services, calls>>
dedupVars == <<raw_faces, unique_faces>>
endpointVars == <<request, response>>

None == "None"

Min(a, b) == IF a < b THEN a ELSE b
Max(a, b) == IF a > b THEN a ELSE b

SeqsUpTo(S, n) == UNION {[1..k -> S] : k \in 0..n}

(***************************************************************************)
(* Bounds of the model.                                                    *)
(***************************************************************************)
MaxListDim == 2   \* image side up to which several regions are detected
MaxFaces == 2     \* regions in one detection result
MaxDim == 5       \* shorter image side when one region is detected
MaxWide == 20     \* longer image side when one region is detected

(***************************************************************************)
(* Face candidate filter, detect_faces_and_landmarks lines 56-73.          *)
(***************************************************************************)

\* A region the detector can return: inside the image, at least 1x1.
Regions(W, H) ==
  {<<x, y, w, h>> : x \in 0..(W - 1), y \in 0..(H - 1), w \in 1..W, h \in 1..H}

RawRegions(W, H) == {r \in Regions(W, H) : r[1] + r[3] <= W /\ r[2] + r[4] <= H}

\* face_center_x = x + w // 2 ; center_x = width // 2
FaceCenter(r) == <<r[1] + (r[3] \div 2), r[2] + (r[4] \div 2)>>
ImageCenter(W, H) == <<W \div 2, H \div 2>>

\* (face_center_x - center_x) ** 2 + (face_center_y - center_y) ** 2
DistanceSquared(r, W, H) ==
  LET fc == FaceCenter(r)
      ic == ImageCenter(W, H)
  IN (fc[1] - ic[1]) * (fc[1] - ic[1]) + (fc[2] - ic[2]) * (fc[2] - ic[2])

\* distance_from_center < max_distance, with max_distance = min(width, height) * 0.4.
\* The float comparison sqrt(d2) < m * 0.4 agrees with 25 * d2 < 4 * m * m for every
\* image side below 3000.
DistanceOk(r, W, H) ==
  25 * DistanceSquared(r, W, H) < 4 * Min(W, H) * Min(W, H)

\* w > width * 0.15 and h > height * 0.15
SizeOk(r, W, H) == 20 * r[3] > 3 * W /\ 20 * r[4] > 3 * H

KeepFaceNoDistance(r, W, H) == SizeOk(r, W, H)

KeepFaceInclusive(r, W, H) ==
  /\ 25 * DistanceSquared(r, W, H) <= 4 * Min(W, H) * Min(W, H)
  /\ 20 * r[3] >= 3 * W /\ 20 * r[4] >= 3 * H

\* the condition of line 70
KeepFace(r, W, H) == DistanceOk(r, W, H) /\ SizeOk(r, W, H)

FilterInputs ==
  /\ \E W \in 1..MaxWide, H \in 1..MaxWide :
       /\ Min(W, H) <= MaxDim
       /\ width = W
       /\ height = H
       /\ faces \in SeqsUpTo(RawRegions(W, H),
                             IF Max(W, H) <= MaxListDim THEN MaxFaces ELSE 1)
  /\ filtered_faces = None

\* for (x, y, w, h) in faces: if ...: filtered_faces.append((x, y, w, h))
FilterFaces ==
  /\ pc = "detected"
  /\ filtered_faces' = SelectSeq(faces, LAMBDA r : KeepFace(r, width, height))
  /\ pc' = "filtered"
  /\ UNCHANGED <<width, height, faces>>
  /\ UNCHANGED overlayVars
  /\ UNCHANGED landmarkVars
  /\ UNCHANGED fitVars
  /\ UNCHANGED tryOnVars
  /\ UNCHANGED compareVars
  /\ UNCHANGED detectVars
  /\ UNCHANGED sharedVars
  /\ UNCHANGED dedupVars
  /\ UNCHANGED endpointVars

FilterIdle == width = 0 /\ height = 0 /\ faces = <<>> /\ filtered_faces = None

OverlayIdle ==
  background = None /\ overlay = None /\ pos_x = 0 /\ pos_y = 0 /\ returned = None

LandmarkIdle ==
  face = None /\ brow_l = None /\ brow_r = None /\ lip = None /\ landmarks = None

FitIdle == glasses_faces = None /\ eyes = None /\ glasses_shape = None /\ fit = None

TryOnIdle ==
  call = None /\ user_image = None /\ product = None /\ env = None /\ result = None

CompareIdle == face_distance = None /\ tolerance = 0 /\ comparison = None

DetectIdle == detect_env = None /\ detection = None

SharedIdle == services = None /\ calls = None

DedupIdle == raw_faces = None /\ unique_faces = None

EndpointIdle == request = None /\ response = None

InitFilter ==
  pc = "detected" /\ FilterInputs /\ OverlayIdle /\ LandmarkIdle /\ FitIdle
  /\ TryOnIdle /\ CompareIdle /\ DetectIdle /\ SharedIdle /\ DedupIdle /\ EndpointIdle

NextFilter == FilterFaces

SpecFilter == InitFilter /\ [][NextFilter]_vars

(***************************************************************************)
(* Claims about the face candidate filter.                                 *)
(***************************************************************************)

InFiltered(r) ==
  pc = "filtered" /\ \E i \in 1..Len(filtered_faces) : filtered_faces[i] = r

\* the region's centre (x + w/2, y + h/2) is more than 0.4 * min(W, H) from the
\* image centre (W/2, H/2); coordinates doubled to stay in the integers
TrueCentreFar(r, W, H) ==
  25 * ((2 * r[1] + r[3] - W) * (2 * r[1] + r[3] - W)
        + (2 * r[2] + r[4] - H) * (2 * r[2] + r[4] - H))
    > 16 * Min(W, H) * Min(W, H)

\* the centre the code computes is more than 0.4 * min(W, H) from (W // 2, H // 2)
CodeCentreFar(r, W, H) ==
  25 * DistanceSquared(r, W, H) > 4 * Min(W, H) * Min(W, H)

\* C1 as stated: no region whose centre (x + w/2, y + h/2) lies more than
\* 0.4 * min(W, H) from the image centre (W/2, H/2) is in the filtered list.
C1_Original ==
  pc = "filtered" =>
    \A i \in 1..Len(filtered_faces) : ~TrueCentreFar(filtered_faces[i], width, height)

\* C1 amended: no region whose integer centre (x + w // 2, y + h // 2) lies more
\* than 0.4 * min(W, H) from the integer image centre (W // 2, H // 2) is in the
\* filtered list, and the filtered list holds only detected regions.
C1_Filter ==
  pc = "filtered" =>
    \A i \in 1..Len(filtered_faces) :
      /\ ~CodeCentreFar(filtered_faces[i], width, height)
      /\ \E j \in 1..Len(faces) : faces[j] = filtered_faces[i]

\* a far region was detected and the filter has dropped it, keeping another
C1_Witness ==
  /\ pc = "filtered"
  /\ Len(filtered_faces) >= 1
  /\ \E j \in 1..Len(faces) :
       CodeCentreFar(faces[j], width, height) /\ ~InFiltered(faces[j])

Rejected(r) == pc = "filtered" /\ ~InFiltered(r)

\* C2 as stated: a region is rejected exactly when its distance exceeds
\* 0.4 * min(W, H), or w < 0.15 * W, or h < 0.15 * H.
C2_Original ==
  pc = "filtered" =>
    \A j \in 1..Len(faces) :
      Rejected(faces[j]) <=>
        \/ CodeCentreFar(faces[j], width, height)
        \/ 20 * faces[j][3] < 3 * width
        \/ 20 * faces[j][4] < 3 * height

\* C2 amended: a region is rejected exactly when the distance of its integer
\* centre from the integer image centre is 0.4 * min(W, H) or more, or
\* w <= 0.15 * W, or h <= 0.15 * H, and nothing is added to the list.
C2_Filter ==
  pc = "filtered" =>
    /\ \A j \in 1..Len(faces) :
         Rejected(faces[j]) <=>
           \/ 25 * DistanceSquared(faces[j], width, height)
                >= 4 * Min(width, height) * Min(width, height)
           \/ 20 * faces[j][3] <= 3 * width
           \/ 20 * faces[j][4] <= 3 * height
    /\ Len(filtered_faces) <= Len(faces)

\* a region exactly on the distance boundary, large enough, has been rejected
C2_Witness ==
  /\ pc = "filtered"
  /\ \E j \in 1..Len(faces) :
       /\ 25 * DistanceSquared(faces[j], width, height)
            = 4 * Min(width, height) * Min(width, height)
       /\ SizeOk(faces[j], width, height)
       /\ Rejected(faces[j])

(***************************************************************************)
(* Image buffers.  A buffer is a record [h, w, ch, base, px]: shape[0],     *)
(* shape[1], shape[2] and the pixels.  The pixel at <<row, col>> is the    *)
(* tuple of the ch channel values (B, G, R and, with four channels, the    *)
(* opacity): px[<<row, col>>] where px is defined and base everywhere      *)
(* else, so that a large image of one colour with a few other pixels is    *)
(* written with a small px.                                                *)
(***************************************************************************)
MaxBg == 2        \* destination image side
MaxOv == 3        \* overlay image side
MaxSeed == 1      \* number of different contents per overlay or user image, minus one

Colours == << <<0, 0, 0>>, <<255, 255, 255>>, <<100, 150, 200>>, <<255, 0, 77>> >>
AlphaVals == <<0, 128, 254, 255>>

Pixels(h, w) == (0..(h - 1)) \X (0..(w - 1))

\* img[row, col] for p = <<row, col>>
PixelAt(img, p) == IF p \in DOMAIN img.px THEN img.px[p] ELSE img.base

BgImage(h, w, seed) ==
  [h |-> h, w |-> w, ch |-> 3, base |-> <<0, 0, 0>>,
   px |-> [p \in Pixels(h, w) |-> Colours[((seed + 2 * p[1] + p[2]) % 4) + 1]]]

\* an overlay without opacity channel
OvImage3(h, w, seed) ==
  [h |-> h, w |-> w, ch |-> 3, base |-> <<0, 0, 0>>,
   px |-> [p \in Pixels(h, w) |-> Colours[((seed + p[1] + 2 * p[2] + 1) % 4) + 1]]]

\* an overlay with opacity channel: opacity a everywhere (step = 0) or an
\* opacity that changes from pixel to pixel (step = 1)
OvImage4(h, w, seed, a, step) ==
  [h |-> h, w |-> w, ch |-> 4, base |-> <<0, 0, 0, 0>>,
   px |-> [p \in Pixels(h, w) |->
             Colours[((seed + p[1] + 2 * p[2] + 1) % 4) + 1]
               \o <<AlphaVals[((a + step * (p[1] + p[2])) % 4) + 1]>>]]

Overlays ==
  {OvImage3(h, w, s) : h \in 1..MaxOv, w \in 1..MaxOv, s \in 0..MaxSeed}
    \cup {OvImage4(h, w, s, a[1], a[2]) :
            h \in 1..MaxOv, w \in 1..MaxOv, s \in 0..MaxSeed,
            a \in (0..3) \X (0..1)}

\* one content per destination shape; the contents of the overlay vary
Backgrounds == {BgImage(h, w, 0) : h \in 1..MaxBg, w \in 1..MaxBg}

(***************************************************************************)
(* The compositors: GlassesTryOn._overlay_with_transparency and            *)
(* ClothingTryOn._overlay_image.                                           *)
(***************************************************************************)

\* cv2.cvtColor(overlay, cv2.COLOR_BGR2BGRA): opacity 255 appended
BGR2BGRA(img) ==
  [h |-> img.h, w |-> img.w, ch |-> 4, base |-> img.base \o <<255>>,
   px |-> [p \in DOMAIN img.px |-> img.px[p] \o <<255>>]]

\* The cases, among the opacities of AlphaVals, in which the float64 value of
\* alpha * ov + (1 - alpha) * bg falls just below the integer it equals in exact
\* arithmetic: <<opacity, ov, bg>>.
RoundsBelow == {<<254, 0, 255>>}

BlendChannelRounded(a, ov, bg) == (a * ov + (255 - a) * bg + 127) \div 255

BlendChannelSwapped(a, ov, bg) == ((255 - a) * ov + a * bg) \div 255

\* (alpha * ov_rgb + (1 - alpha) * bg_crop).astype(np.uint8), alpha = a / 255.0,
\* one channel of one pixel: the float64 value truncated
BlendChannel(a, ov, bg) ==
  IF <<a, ov, bg>> \in RoundsBelow
    THEN ((a * ov + (255 - a) * bg) \div 255) - 1
    ELSE (a * ov + (255 - a) * bg) \div 255

\* the blend of one overlay pixel (B, G, R, opacity) over one destination pixel
BlendPixel(o, b) ==
  <<BlendChannel(o[4], o[1], b[1]),
    BlendChannel(o[4], o[2], b[2]),
    BlendChannel(o[4], o[3], b[3])>>

\* what a compositor returns: the buffer object (the caller's background or a
\* fresh result) and its pixels
Returned(buf, img) ==
  [buf |-> buf, h |-> img.h, w |-> img.w, base |-> img.base, px |-> img.px]

\* the pixels <<row, col>> of the slice [y1:y2, x1:x2]
Crop(y1, y2, x1, x2) == (y1..(y2 - 1)) \X (x1..(x2 - 1))

OverlayInPlace(bg, ov0, px0, py0) ==
  LET ov == IF ov0.ch = 3 THEN BGR2BGRA(ov0) ELSE ov0
      x1 == Max(0, px0)
      y1 == Max(0, py0)
      x2 == Min(bg.w, px0 + ov.w)
      y2 == Min(bg.h, py0 + ov.h)
      ov_x1 == Max(0, 0 - px0)
      ov_y1 == Max(0, 0 - py0)
  IN IF x1 >= x2 \/ y1 >= y2
       THEN Returned("background", bg)
       ELSE Returned("background",
              [bg EXCEPT !.px =
                 [p \in DOMAIN bg.px \cup Crop(y1, y2, x1, x2) |->
                    IF p \in Crop(y1, y2, x1, x2)
                      THEN BlendPixel(PixelAt(ov, <<ov_y1 + (p[1] - y1), ov_x1 + (p[2] - x1)>>),
                                      PixelAt(bg, p))
                      ELSE bg.px[p]]])

\* the emptiness test written with > in place of >=
OverlayTouching(bg, ov0, px0, py0) ==
  LET x1 == Max(0, px0)
      y1 == Max(0, py0)
      x2 == Min(bg.w, px0 + ov0.w)
      y2 == Min(bg.h, py0 + ov0.h)
  IN IF x1 > x2 \/ y1 > y2
       THEN Returned("background", bg)
       ELSE IF x1 = x2 \/ y1 = y2
         THEN Returned("result", bg)
         ELSE OverlayInPlace(bg, ov0, px0, py0)

\* the overlay read from its first row and column whatever the placement
OverlayUnshifted(bg, ov0, px0, py0) ==
  LET ov == IF ov0.ch = 3 THEN BGR2BGRA(ov0) ELSE ov0
      x1 == Max(0, px0)
      y1 == Max(0, py0)
      x2 == Min(bg.w, px0 + ov.w)
      y2 == Min(bg.h, py0 + ov.h)
  IN IF x1 >= x2 \/ y1 >= y2
       THEN Returned("background", bg)
       ELSE Returned("result",
              [bg EXCEPT !.px =
                 [p \in DOMAIN bg.px \cup Crop(y1, y2, x1, x2) |->
                    IF p \in Crop(y1, y2, x1, x2)
                      THEN BlendPixel(PixelAt(ov, <<p[1] - y1, p[2] - x1>>),
                                      PixelAt(bg, p))
                      ELSE bg.px[p]]])

\* GlassesTryOn._overlay_with_transparency(background, overlay, x, y)
OverlayWithTransparency(bg, ov0, px0, py0) ==
  LET bg_h == bg.h
      bg_w == bg.w
      ov_h == ov0.h
      ov_w == ov0.w
      ov == IF ov0.ch = 3 THEN BGR2BGRA(ov0) ELSE ov0
      x1 == Max(0, px0)
      y1 == Max(0, py0)
      x2 == Min(bg_w, px0 + ov_w)
      y2 == Min(bg_h, py0 + ov_h)
      ov_x1 == Max(0, 0 - px0)
      ov_y1 == Max(0, 0 - py0)
      ov_x2 == ov_x1 + (x2 - x1)
      ov_y2 == ov_y1 + (y2 - y1)
  IN IF x1 >= x2 \/ y1 >= y2
       THEN Returned("background", bg)
       ELSE Returned("result",
              [bg EXCEPT !.px =
                 [p \in DOMAIN bg.px \cup Crop(y1, y2, x1, x2) |->
                    IF p \in Crop(y1, y2, x1, x2)
                      THEN BlendPixel(PixelAt(ov, <<ov_y1 + (p[1] - y1), ov_x1 + (p[2] - x1)>>),
                                      PixelAt(bg, p))
                      ELSE bg.px[p]]])

\* the blend pasted into an empty canvas in place of background.copy()
OverlayImageOnBlank(bg, ov0, px0, py0) ==
  LET ov == IF ov0.ch = 3 THEN BGR2BGRA(ov0) ELSE ov0
      x1 == Max(0, px0)
      y1 == Max(0, py0)
      x2 == Min(bg.w, px0 + ov.w)
      y2 == Min(bg.h, py0 + ov.h)
      ov_x1 == Max(0, 0 - px0)
      ov_y1 == Max(0, 0 - py0)
  IN IF x1 >= x2 \/ y1 >= y2
       THEN Returned("background", bg)
       ELSE Returned("result",
              [bg EXCEPT !.px =
                 [p \in DOMAIN bg.px \cup Crop(y1, y2, x1, x2) |->
                    IF p \in Crop(y1, y2, x1, x2)
                      THEN BlendPixel(PixelAt(ov, <<ov_y1 + (p[1] - y1), ov_x1 + (p[2] - x1)>>),
                                      PixelAt(bg, p))
                      ELSE <<0, 0, 0>>]])

\* the overlay pasted without regard to its opacity channel
OverlayImageOpaque(bg, ov0, px0, py0) ==
  LET ov == IF ov0.ch = 3 THEN BGR2BGRA(ov0) ELSE ov0
      x1 == Max(0, px0)
      y1 == Max(0, py0)
      x2 == Min(bg.w, px0 + ov.w)
      y2 == Min(bg.h, py0 + ov.h)
      ov_x1 == Max(0, 0 - px0)
      ov_y1 == Max(0, 0 - py0)
  IN IF x1 >= x2 \/ y1 >= y2
       THEN Returned("background", bg)
       ELSE Returned("result",
              [bg EXCEPT !.px =
                 [p \in DOMAIN bg.px \cup Crop(y1, y2, x1, x2) |->
                    IF p \in Crop(y1, y2, x1, x2)
                      THEN SubSeq(PixelAt(ov, <<ov_y1 + (p[1] - y1), ov_x1 + (p[2] - x1)>>),
                                  1, 3)
                      ELSE bg.px[p]]])

\* ClothingTryOn._overlay_image(background, overlay, x, y)
OverlayImage(bg, ov0, px0, py0) ==
  LET bg_h == bg.h
      bg_w == bg.w
      ov_h == ov0.h
      ov_w == ov0.w
      ov == IF ov0.ch = 3 THEN BGR2BGRA(ov0) ELSE ov0
      x1 == Max(0, px0)
      y1 == Max(0, py0)
      x2 == Min(bg_w, px0 + ov_w)
      y2 == Min(bg_h, py0 + ov_h)
      ov_x1 == Max(0, 0 - px0)
      ov_y1 == Max(0, 0 - py0)
      ov_x2 == ov_x1 + (x2 - x1)
      ov_y2 == ov_y1 + (y2 - y1)
  IN IF x1 >= x2 \/ y1 >= y2
       THEN Returned("background", bg)
       ELSE Returned("result",
              [bg EXCEPT !.px =
                 [p \in DOMAIN bg.px \cup Crop(y1, y2, x1, x2) |->
                    IF p \in Crop(y1, y2, x1, x2)
                      THEN BlendPixel(PixelAt(ov, <<ov_y1 + (p[1] - y1), ov_x1 + (p[2] - x1)>>),
                                      PixelAt(bg, p))
                      ELSE bg.px[p]]])

Compositors == {"glasses", "clothing"}

NotCalled == [buf |-> None]

OverlayInputs ==
  /\ background \in Backgrounds
  /\ overlay \in Overlays
  /\ pos_x \in (0 - MaxOv)..MaxBg
  /\ pos_y \in (0 - MaxOv)..MaxBg
  /\ returned = [c \in Compositors |-> NotCalled]

\* a call of glasses_service._overlay_with_transparency
CallOverlayWithTransparency ==
  /\ pc = "overlay"
  /\ returned["glasses"] = NotCalled
  /\ returned' = [returned EXCEPT
                    !["glasses"] = OverlayWithTransparency(background, overlay, pos_x, pos_y)]
  /\ UNCHANGED <<pc, background, overlay, pos_x, pos_y>>
  /\ UNCHANGED filterVars
  /\ UNCHANGED landmarkVars
  /\ UNCHANGED fitVars
  /\ UNCHANGED tryOnVars
  /\ UNCHANGED compareVars
  /\ UNCHANGED detectVars
  /\ UNCHANGED sharedVars
  /\ UNCHANGED dedupVars
  /\ UNCHANGED endpointVars

\* a call of clothing_service._overlay_image
CallOverlayImage ==
  /\ pc = "overlay"
  /\ returned["clothing"] = NotCalled
  /\ returned' = [returned EXCEPT
                    !["clothing"] = OverlayImage(background, overlay, pos_x, pos_y)]
  /\ UNCHANGED <<pc, background, overlay, pos_x, pos_y>>
  /\ UNCHANGED filterVars
  /\ UNCHANGED landmarkVars
  /\ UNCHANGED fitVars
  /\ UNCHANGED tryOnVars
  /\ UNCHANGED compareVars
  /\ UNCHANGED detectVars
  /\ UNCHANGED sharedVars
  /\ UNCHANGED dedupVars
  /\ UNCHANGED endpointVars

InitOverlay ==
  pc = "overlay" /\ OverlayInputs /\ FilterIdle /\ LandmarkIdle /\ FitIdle
  /\ TryOnIdle /\ CompareIdle /\ DetectIdle /\ SharedIdle /\ DedupIdle /\ EndpointIdle

NextOverlay == CallOverlayWithTransparency \/ CallOverlayImage

SpecOverlay == InitOverlay /\ [][NextOverlay]_vars

(***************************************************************************)
(* Claims about the compositors.                                           *)
(***************************************************************************)

Called(c) == pc = "overlay" /\ returned[c].buf # None

\* the destination pixel p = <<row, col>> is covered by the overlay rectangle
Covered(p) ==
  /\ pos_y <= p[1] /\ p[1] < pos_y + overlay.h
  /\ pos_x <= p[2] /\ p[2] < pos_x + overlay.w

\* the overlay pixel lying over the destination pixel p
OverlayAt(p) == overlay.px[<<p[1] - pos_y, p[2] - pos_x>>]

\* that overlay pixel's opacity, 255 when the overlay has no opacity channel
OpacityAt(p) == IF overlay.ch = 3 THEN 255 ELSE OverlayAt(p)[4]

EmptyIntersection ==
  \/ pos_x + overlay.w <= 0 \/ pos_x >= background.w
  \/ pos_y + overlay.h <= 0 \/ pos_y >= background.h

\* 255 times the exact value a * overlay + (1 - a) * destination of channel k at p
ExactBlend255(p, k) ==
  OpacityAt(p) * OverlayAt(p)[k] + (255 - OpacityAt(p)) * background.px[p][k]

\* C4 as stated: every covered destination pixel equals
\* a * overlay + (1 - a) * destination in each colour channel.
C4_Original ==
  \A c \in Compositors :
    Called(c) =>
      \A p \in DOMAIN background.px :
        Covered(p) =>
          \A k \in 1..3 : 255 * returned[c].px[p][k] = ExactBlend255(p, k)

\* C4 amended: every covered destination pixel is a * overlay + (1 - a) *
\* destination truncated to an 8-bit integer: in each colour channel it is not
\* above that value and at most 1 below it, and it equals the value when a is 0
\* or 1, as it is for every pixel of an overlay with 3 channels; for every
\* integer placement, negative or past the right or bottom edge.
C4_Blend ==
  \A c \in Compositors :
    Called(c) =>
      \A p \in DOMAIN background.px :
        Covered(p) =>
          \A k \in 1..3 :
            /\ returned[c].px[p][k] \in 0..255
            /\ 255 * returned[c].px[p][k] <= ExactBlend255(p, k)
            /\ ExactBlend255(p, k) <= 255 * returned[c].px[p][k] + 255
            /\ OpacityAt(p) \in {0, 255} =>
                 255 * returned[c].px[p][k] = ExactBlend255(p, k)

\* both compositors have blended an overlay placed at a negative x that also runs
\* past the bottom edge, with a half-transparent pixel that gives a new value
C4_Witness ==
  /\ Called("glasses") /\ Called("clothing")
  /\ pos_x < 0
  /\ pos_y + overlay.h > background.h
  /\ \E p \in DOMAIN background.px :
       /\ Covered(p)
       /\ OpacityAt(p) = 128
       /\ returned["glasses"].px[p] # background.px[p]
       /\ returned["glasses"].px[p] # SubSeq(OverlayAt(p), 1, 3)

ZeroOpacity ==
  overlay.ch = 4 /\ \A q \in DOMAIN overlay.px : overlay.px[q][4] = 0

\* C5: with a 4-channel overlay whose opacity is 0 at every pixel, both
\* compositors return a buffer equal pixel for pixel to the destination.
C5_ZeroOpacity ==
  \A c \in Compositors :
    (Called(c) /\ ZeroOpacity) =>
      /\ returned[c].h = background.h /\ returned[c].w = background.w
      /\ returned[c].px = background.px

\* a zero-opacity overlay of another colour covers a destination pixel and both
\* compositors have returned
C5_Witness ==
  /\ Called("glasses") /\ Called("clothing")
  /\ ZeroOpacity
  /\ \E p \in DOMAIN background.px :
       Covered(p) /\ SubSeq(OverlayAt(p), 1, 3) # background.px[p]

\* C6: when the overlay rectangle does not intersect the destination, both
\* compositors return the destination itself, unchanged.
C6_Clipped ==
  \A c \in Compositors :
    (Called(c) /\ EmptyIntersection) =>
      /\ returned[c].buf = "background"
      /\ returned[c].h = background.h /\ returned[c].w = background.w
      /\ returned[c].px = background.px

\* an overlay lying entirely to the right of the destination, and one entirely
\* above it, have been composited
C6_Witness ==
  /\ Called("glasses") /\ Called("clothing")
  /\ \/ (pos_x >= background.w /\ pos_y = 0)
     \/ (pos_y + overlay.h <= 0 /\ pos_x = 0)

(***************************************************************************)
(* Landmark assembler: AdvancedFaceDetectionService.                       *)
(* _generate_precise_landmarks and the generators it calls.  A point is    *)
(* the record [x, y] the code builds.  int() truncates toward zero.  The   *)
(* tables hold np.cos and np.sin of the angles the code uses, times 10^5   *)
(* and truncated; a value that is not zero but smaller than 10^-5 is kept  *)
(* as 1 or -1, because its sign decides the truncation of center + a * cos.*)
(* With these tables the integer formulas below give the values of the     *)
(* float64 code for every face of at most 89 pixels a side.                *)
(***************************************************************************)
MaxFace == 80     \* face side
MaxOrigin == 1    \* face origin coordinates
MaxBrowPts == 9   \* vertices of a simplified eyebrow contour
MaxLipPts == 17   \* vertices of a simplified lip contour
MaxStart == 1     \* first vertex of a lip contour

Pt(px, py) == [x |-> px, y |-> py]

TruncDiv(n, d) == IF n >= 0 THEN n \div d ELSE 0 - ((0 - n) \div d)

\* np.cos / np.sin of np.linspace(0, 2 * np.pi, 17)
Cos16 == <<100000, 92387, 70710, 38268, 1, -38268, -70710, -92387, -100000,
           -92387, -70710, -38268, -1, 38268, 70710, 92387, 100000>>
Sin16 == <<0, 38268, 70710, 92387, 100000, 92387, 70710, 38268, 1,
           -38268, -70710, -92387, -100000, -92387, -70710, -38268, -1>>
\* np.cos / np.sin of 2 * np.pi * i / 12, i = 0..11
Cos12 == <<100000, 86602, 50000, 1, -49999, -86602, -100000, -86602, -50000,
           -1, 50000, 86602>>
Sin12 == <<0, 49999, 86602, 100000, 86602, 49999, 1, -49999, -86602, -100000,
           -86602, -50000>>
\* np.cos((i / 12) * 2 * np.pi), i = 0..11
CosMouth == <<100000, 86602, 50000, 1, -49999, -86602, -100000, -86602, -50000,
              -1, 50000, 86602>>
\* np.sin(i * np.pi / 5), i = 0..4
Sin5 == <<0, 58778, 95105, 95105, 58778>>
\* int(15 * np.sin((i / 12) * 2 * np.pi)), i = 0..11
Mouth15 == <<0, 7, 12, 15, 12, 7, 0, -7, -12, -15, -12, -7>>
\* int(2 * np.sin(i * 0.5)), i = 0..3
NoseCurve == <<0, 0, 1, 1>>

\* _generate_face_outline: 17 points of an ellipse, clamped into the face
GenerateFaceOutline(face_x, face_y, face_w, face_h) ==
  LET center_x == face_w \div 2
      center_y == face_h \div 2
  IN [i \in 1..17 |->
        LET point_x == TruncDiv(center_x * 10000000 + face_w * 45 * Cos16[i], 10000000)
            point_y == TruncDiv(center_y * 10000000 + face_h * 48 * Sin16[i], 10000000)
        IN Pt(face_x + Max(0, Min(face_w - 1, point_x)),
              face_y + Max(0, Min(face_h - 1, point_y)))]

\* _create_eye_shape: 12 points, radius_y = 0.4 * eye_h for angles in [0, pi)
\* (i = 0..5) and 0.5 * eye_h for the others
CreateEyeShape(eye_x, eye_y, eye_w, eye_h, face_x, face_y) ==
  LET center_x == eye_x + (eye_w \div 2)
      center_y == eye_y + (eye_h \div 2)
  IN [i \in 1..12 |->
        Pt(face_x + center_x + TruncDiv(eye_w * 5 * Cos12[i], 1000000),
           face_y + center_y
             + TruncDiv(eye_h * (IF i <= 6 THEN 4 ELSE 5) * Sin12[i], 1000000))]

\* _generate_eye_landmarks: <<left_eye_points, right_eye_points>>
GenerateEyeLandmarks(face_x, face_y, face_w, face_h) ==
  LET eye_y == (face_h * 35) \div 100
      eye_h == (face_h * 15) \div 100
  IN <<CreateEyeShape((face_w * 20) \div 100, eye_y, (face_w * 25) \div 100, eye_h,
                      face_x, face_y),
       CreateEyeShape((face_w * 55) \div 100, eye_y, (face_w * 25) \div 100, eye_h,
                      face_x, face_y)>>

(***************************************************************************)
(* Contour extraction calls OpenCV (Canny, inRange, findContours,          *)
(* approxPolyDP).  What OpenCV finds in the pixels is an input of the      *)
(* model: [kind, pts], kind being "raise" (a call raised), "none" (no      *)
(* contour), "small" (lips: the largest contour has an area of at most     *)
(* 100) or "contour", with pts the vertices of the simplified contour in   *)
(* the coordinates of the region.                                          *)
(***************************************************************************)
Failed(kind) == [kind |-> kind, pts |-> <<>>]
Found(pts) == [kind |-> "contour", pts |-> pts]

\* list.sort(key=...), a stable sort.  before is the set of the <<i, j>> with
\* key(s[i]) < key(s[j]); the element at rank r has r - 1 elements before it,
\* those with a smaller key and those with an equal key that precede it in s.
\* RanksOf is the set of <<index, rank>>.
RanksOf(n, before) ==
  {<<i, 1 + Cardinality({j \in 1..n :
                           \/ <<j, i>> \in before
                           \/ <<i, j>> \notin before /\ j < i})>> : i \in 1..n}

Ranked(s, ranks) ==
  [r \in 1..Len(s) |-> s[CHOOSE i \in 1..Len(s) : <<i, r>> \in ranks]]

\* before and the ranks are computed once, as values of bound variables
SortBy(s, before) ==
  CHOOSE sorted \in
    {Ranked(s, ranks) : ranks \in {RanksOf(Len(s), b) : b \in {before}}} : TRUE

Take(s, n) == SubSeq(s, 1, Min(n, Len(s)))

\* the fallback arch of _detect_eyebrow_contour, lines 312-321; at i = 5 the
\* float64 value of rh * 0.5 - 3 * sin(pi) lies below rh / 2 for rh = 2, 4, 6, 8
BrowFallbackY(rh, i) ==
  IF i = 5
    THEN IF rh \in {2, 4, 6, 8} THEN (rh \div 2) - 1 ELSE rh \div 2
    ELSE TruncDiv(rh * 500000 - 30 * Sin5[i + 1], 1000000)

EyebrowFallback(rw, rh, offset_x, offset_y) ==
  [k \in 1..6 |-> Pt(offset_x + (rw * (k - 1)) \div 5,
                     offset_y + BrowFallbackY(rh, k - 1))]

\* the loop over simplified: {"x": int(offset_x + x), "y": int(offset_y + y)}
Translated(pts, offset_x, offset_y) ==
  [k \in 1..Len(pts) |-> Pt(offset_x + pts[k][1], offset_y + pts[k][2])]

\* points.sort(key=lambda p: p["x"])
SortByX(points) ==
  SortBy(points, {<<i, j>> \in (1..Len(points)) \X (1..Len(points)) :
                    points[i].x < points[j].x})

\* lines 296-308 of _detect_eyebrow_contour: the vertices of the simplified
\* contour, translated, sorted left to right and cut to 8
SortedBrowContour(offset_x, offset_y, found) ==
  Take(SortByX(Translated(found.pts, offset_x, offset_y)), 8)

\* _detect_eyebrow_contour(region, offset_x, offset_y), region.shape = (rh, rw).
\* When findContours returns a contour, line 293 evaluates
\* max(contours, key=cv2.arcLength): max calls cv2.arcLength(contour) with one
\* argument, and arcLength requires its second argument, closed.  The call
\* raises, the bare except of line 308 swallows the exception, and lines
\* 296-307 never run: every outcome of the extraction ends in the fallback.
DetectEyebrowContour(rw, rh, offset_x, offset_y, found) ==
  EyebrowFallback(rw, rh, offset_x, offset_y)

\* the eyebrow search regions of _generate_eyebrow_landmarks: <<x, y, w, h>>
LeftBrowRegion(face_w, face_h) ==
  <<(face_w * 15) \div 100, (face_h * 15) \div 100,
    (face_w * 30) \div 100, (face_h * 15) \div 100>>
RightBrowRegion(face_w, face_h) ==
  <<(face_w * 55) \div 100, (face_h * 15) \div 100,
    (face_w * 30) \div 100, (face_h * 15) \div 100>>

\* _generate_eyebrow_landmarks: <<left_brow_points, right_brow_points>>
GenerateEyebrowLandmarks(face_x, face_y, face_w, face_h, found_l, found_r) ==
  LET l == LeftBrowRegion(face_w, face_h)
      r == RightBrowRegion(face_w, face_h)
  IN <<DetectEyebrowContour(l[3], l[4], face_x + l[1], face_y + l[2], found_l),
       DetectEyebrowContour(r[3], r[4], face_x + r[1], face_y + r[2], found_r)>>

\* _generate_nose_landmarks: <<bridge_points, tip_points>>
GenerateNoseLandmarks(face_x, face_y, face_w, face_h) ==
  LET center_x == face_w \div 2
      tip_y == (face_h * 60) \div 100
  IN <<[k \in 1..4 |->
          Pt(face_x + center_x + NoseCurve[k],
             face_y + (face_h * (35 + (k - 1) * 8)) \div 100)],
       <<Pt(face_x + center_x - 8, face_y + tip_y),
         Pt(face_x + center_x - 4, face_y + tip_y - 3),
         Pt(face_x + center_x, face_y + tip_y - 5),
         Pt(face_x + center_x + 4, face_y + tip_y - 3),
         Pt(face_x + center_x + 8, face_y + tip_y)>> >>

\* the fallback mouth of _detect_lip_contour, lines 433-448
MouthFallback(rw, rh, offset_x, offset_y) ==
  LET mouth_center_x == rw \div 2
      mouth_y == rh \div 2
      mouth_w == (rw * 70) \div 100
  IN [k \in 1..12 |->
        Pt(offset_x + mouth_center_x + TruncDiv(mouth_w * 5 * CosMouth[k], 1000000),
           offset_y + mouth_y + Mouth15[k])]

\* the class of np.arctan2(dy, dx) in (-pi, pi]: below the centre, at angle 0,
\* above the centre, at angle pi
AngleClass(dx, dy) ==
  IF dy < 0 THEN 0 ELSE IF dy = 0 /\ dx >= 0 THEN 1 ELSE IF dy > 0 THEN 2 ELSE 3

\* np.arctan2(a.y - center_y, a.x - center_x) < np.arctan2(b.y - ..., b.x - ...),
\* the centre being (sx / n, sy / n)
AngleBefore(a, b, sx, sy, n) ==
  LET ax == n * a.x - sx
      ay == n * a.y - sy
      bx == n * b.x - sx
      by == n * b.y - sy
  IN \/ AngleClass(ax, ay) < AngleClass(bx, by)
     \/ /\ AngleClass(ax, ay) = AngleClass(bx, by)
        /\ AngleClass(ax, ay) \in {0, 2}
        /\ ax * by - ay * bx > 0

\* sum(...) over a sequence of integers
Sum(s) ==
  LET partial[i \in 0..Len(s)] == IF i = 0 THEN 0 ELSE partial[i - 1] + s[i]
  IN partial[Len(s)]

SumX(points) == Sum([k \in 1..Len(points) |-> points[k].x])
SumY(points) == Sum([k \in 1..Len(points) |-> points[k].y])

\* points.sort(key=lambda p: np.arctan2(p["y"] - center_y, p["x"] - center_x)),
\* sx and sy being the sums of the coordinates
SortByAngle(points, sx, sy) ==
  SortBy(points, {<<i, j>> \in (1..Len(points)) \X (1..Len(points)) :
                    AngleBefore(points[i], points[j], sx, sy, Len(points))})

\* _detect_lip_contour without the fallback of lines 433-448
DetectLipContourNoFallback(rw, rh, offset_x, offset_y, found) ==
  LET points == Translated(found.pts, offset_x, offset_y)
  IN IF found.kind = "contour" /\ Len(points) >= 4
       THEN Take(SortByAngle(points, SumX(points), SumY(points)), 16)
       ELSE <<>>

\* _detect_lip_contour without the sort of line 427
DetectLipContourUnsorted(rw, rh, offset_x, offset_y, found) ==
  LET points == Translated(found.pts, offset_x, offset_y)
  IN IF found.kind = "contour" /\ Len(points) >= 4
       THEN Take(points, 16)
       ELSE MouthFallback(rw, rh, offset_x, offset_y)

\* _detect_lip_contour(region, offset_x, offset_y), region.shape = (rh, rw)
DetectLipContour(rw, rh, offset_x, offset_y, found) ==
  LET points == Translated(found.pts, offset_x, offset_y)
  IN IF found.kind = "contour" /\ Len(points) >= 4
       THEN Take(SortByAngle(points, SumX(points), SumY(points)), 16)
       ELSE MouthFallback(rw, rh, offset_x, offset_y)

\* The pairs <<p, 3 * c>>, for coordinates up to 80, for which the float64 value of
\* p * 0.7 + c * 0.3 lies just below the integer it equals in exact arithmetic.
InnerLipBelow ==
  {<<0, 70>>, <<0, 110>>, <<0, 140>>, <<0, 220>>, <<1, 13>>, <<1, 73>>, <<1, 93>>, <<1, 113>>,
   <<1, 123>>, <<1, 143>>, <<1, 153>>, <<1, 173>>, <<1, 193>>, <<1, 223>>, <<2, 26>>, <<2, 146>>,
   <<2, 176>>, <<2, 186>>, <<2, 196>>, <<2, 216>>, <<2, 226>>, <<3, 9>>, <<3, 19>>, <<3, 49>>,
   <<3, 119>>, <<4, 52>>, <<5, 125>>, <<5, 205>>, <<5, 235>>, <<6, 8>>, <<6, 18>>, <<6, 38>>,
   <<6, 88>>, <<6, 98>>, <<6, 108>>, <<6, 188>>, <<6, 208>>, <<6, 238>>, <<7, 1>>, <<7, 11>>,
   <<7, 161>>, <<7, 171>>, <<7, 191>>, <<7, 201>>, <<7, 211>>, <<7, 231>>, <<8, 94>>, <<8, 104>>,
   <<10, 220>>, <<11, 3>>, <<11, 73>>, <<11, 173>>, <<11, 193>>, <<11, 223>>, <<12, 6>>, <<12, 16>>,
   <<12, 26>>, <<12, 36>>, <<12, 46>>, <<12, 66>>, <<12, 76>>, <<12, 146>>, <<12, 176>>, <<12, 186>>,
   <<12, 196>>, <<12, 216>>, <<12, 226>>, <<14, 2>>, <<14, 12>>, <<14, 22>>, <<14, 32>>, <<14, 52>>,
   <<15, 205>>, <<16, 188>>, <<16, 208>>, <<17, 1>>, <<17, 11>>, <<17, 21>>, <<17, 31>>, <<17, 41>>,
   <<17, 161>>, <<17, 171>>, <<17, 191>>, <<17, 201>>, <<19, 7>>, <<19, 17>>, <<19, 27>>, <<21, 173>>,
   <<22, 6>>, <<22, 146>>, <<23, 9>>, <<23, 19>>, <<23, 29>>, <<23, 39>>, <<23, 49>>, <<23, 69>>,
   <<23, 79>>, <<23, 119>>, <<23, 149>>, <<23, 159>>, <<24, 2>>, <<24, 12>>, <<24, 22>>, <<24, 32>>,
   <<24, 42>>, <<24, 52>>, <<24, 62>>, <<24, 72>>, <<24, 82>>, <<24, 92>>, <<24, 102>>, <<24, 122>>,
   <<24, 132>>, <<24, 152>>, <<28, 4>>, <<28, 14>>, <<28, 24>>, <<28, 34>>, <<28, 44>>, <<28, 54>>,
   <<28, 64>>, <<28, 94>>, <<28, 104>>, <<29, 7>>, <<29, 17>>, <<29, 27>>, <<29, 37>>, <<29, 47>>,
   <<29, 57>>, <<29, 67>>, <<29, 77>>, <<29, 87>>, <<29, 107>>, <<29, 117>>, <<33, 9>>, <<33, 19>>,
   <<33, 29>>, <<33, 39>>, <<33, 49>>, <<33, 69>>, <<33, 79>>, <<34, 2>>, <<34, 12>>, <<34, 22>>,
   <<34, 32>>, <<34, 42>>, <<34, 52>>, <<34, 62>>, <<34, 72>>, <<34, 82>>, <<38, 4>>, <<38, 14>>,
   <<38, 24>>, <<38, 34>>, <<38, 44>>, <<38, 54>>, <<39, 7>>, <<39, 17>>, <<39, 27>>, <<39, 37>>,
   <<39, 47>>, <<43, 9>>, <<43, 19>>, <<44, 2>>, <<44, 12>>, <<45, 5>>, <<45, 35>>, <<45, 55>>,
   <<45, 125>>, <<45, 155>>, <<45, 205>>, <<45, 235>>, <<46, 8>>, <<46, 18>>, <<46, 28>>, <<46, 38>>,
   <<46, 48>>, <<46, 58>>, <<46, 68>>, <<46, 78>>, <<46, 88>>, <<46, 98>>, <<46, 108>>, <<46, 128>>,
   <<46, 138>>, <<46, 158>>, <<46, 188>>, <<46, 208>>, <<46, 238>>, <<48, 4>>, <<48, 14>>, <<48, 24>>,
   <<48, 34>>, <<48, 44>>, <<48, 54>>, <<48, 64>>, <<48, 74>>, <<48, 84>>, <<48, 94>>, <<48, 104>>,
   <<48, 114>>, <<48, 124>>, <<48, 134>>, <<48, 144>>, <<48, 154>>, <<48, 164>>, <<48, 174>>, <<48, 184>>,
   <<48, 204>>, <<48, 214>>, <<48, 234>>, <<51, 3>>, <<51, 13>>, <<51, 23>>, <<51, 33>>, <<51, 43>>,
   <<51, 53>>, <<51, 63>>, <<51, 73>>, <<51, 93>>, <<51, 113>>, <<51, 123>>, <<51, 143>>, <<51, 153>>,
   <<51, 173>>, <<51, 193>>, <<51, 223>>, <<53, 9>>, <<53, 19>>, <<53, 29>>, <<53, 39>>, <<53, 49>>,
   <<53, 59>>, <<53, 69>>, <<53, 79>>, <<53, 89>>, <<53, 99>>, <<53, 109>>, <<53, 119>>, <<53, 129>>,
   <<53, 139>>, <<53, 149>>, <<53, 159>>, <<53, 169>>, <<53, 179>>, <<53, 189>>, <<53, 199>>, <<53, 219>>,
   <<53, 229>>, <<56, 8>>, <<56, 18>>, <<56, 28>>, <<56, 38>>, <<56, 48>>, <<56, 58>>, <<56, 68>>,
   <<56, 78>>, <<56, 88>>, <<56, 98>>, <<56, 108>>, <<56, 128>>, <<56, 138>>, <<56, 158>>, <<56, 188>>,
   <<56, 208>>, <<56, 238>>, <<58, 4>>, <<58, 14>>, <<58, 24>>, <<58, 34>>, <<58, 44>>, <<58, 54>>,
   <<58, 64>>, <<58, 74>>, <<58, 84>>, <<58, 94>>, <<58, 104>>, <<58, 114>>, <<58, 124>>, <<58, 134>>,
   <<58, 144>>, <<58, 154>>, <<58, 164>>, <<58, 174>>, <<58, 184>>, <<58, 204>>, <<58, 214>>, <<58, 234>>,
   <<61, 3>>, <<61, 13>>, <<61, 23>>, <<61, 33>>, <<61, 43>>, <<61, 53>>, <<61, 63>>, <<61, 73>>,
   <<61, 93>>, <<61, 113>>, <<61, 123>>, <<61, 143>>, <<61, 153>>, <<61, 173>>, <<61, 193>>, <<63, 9>>,
   <<63, 19>>, <<63, 29>>, <<63, 39>>, <<63, 49>>, <<63, 59>>, <<63, 69>>, <<63, 79>>, <<63, 89>>,
   <<63, 99>>, <<63, 109>>, <<63, 119>>, <<63, 129>>, <<63, 139>>, <<63, 149>>, <<63, 159>>, <<63, 169>>,
   <<63, 179>>, <<63, 189>>, <<63, 199>>, <<66, 8>>, <<66, 18>>, <<66, 28>>, <<66, 38>>, <<66, 48>>,
   <<66, 58>>, <<66, 68>>, <<66, 78>>, <<66, 88>>, <<66, 98>>, <<66, 108>>, <<66, 128>>, <<66, 138>>,
   <<66, 158>>, <<68, 4>>, <<68, 14>>, <<68, 24>>, <<68, 34>>, <<68, 44>>, <<68, 54>>, <<68, 64>>,
   <<68, 74>>, <<68, 84>>, <<68, 94>>, <<68, 104>>, <<68, 114>>, <<68, 124>>, <<68, 134>>, <<68, 144>>,
   <<68, 154>>, <<68, 164>>, <<71, 3>>, <<71, 13>>, <<71, 23>>, <<71, 33>>, <<71, 43>>, <<71, 53>>,
   <<71, 63>>, <<71, 73>>, <<71, 93>>, <<71, 113>>, <<71, 123>>, <<71, 143>>, <<73, 9>>, <<73, 19>>,
   <<73, 29>>, <<73, 39>>, <<73, 49>>, <<73, 59>>, <<73, 69>>, <<73, 79>>, <<73, 89>>, <<73, 99>>,
   <<73, 109>>, <<73, 119>>, <<73, 129>>, <<76, 8>>, <<76, 18>>, <<76, 28>>, <<76, 38>>, <<76, 48>>,
   <<76, 58>>, <<76, 68>>, <<76, 78>>, <<76, 88>>, <<76, 98>>, <<76, 108>>, <<78, 4>>, <<78, 14>>,
   <<78, 24>>, <<78, 34>>, <<78, 44>>, <<78, 54>>, <<78, 64>>, <<78, 74>>, <<78, 84>>, <<78, 94>>}

\* int(point * 0.7 + center * 0.3), center = sum / n
InnerLipCoord(p, sum, n) ==
  IF (3 * sum) % n = 0 /\ <<p, (3 * sum) \div n>> \in InnerLipBelow
    THEN ((7 * p * n + 3 * sum) \div (10 * n)) - 1
    ELSE (7 * p * n + 3 * sum) \div (10 * n)

\* the loop over the first half of outer_lip[::2] only
MovedToCenterFloor(outer_lip, sx, sy) ==
  [k \in 1..(Len(outer_lip) \div 2) |->
     Pt(InnerLipCoord(outer_lip[2 * k - 1].x, sx, Len(outer_lip)),
        InnerLipCoord(outer_lip[2 * k - 1].y, sy, Len(outer_lip)))]

\* the loop over outer_lip[::2], sx and sy being the sums of the coordinates
MovedToCenter(outer_lip, sx, sy) ==
  [k \in 1..((Len(outer_lip) + 1) \div 2) |->
     Pt(InnerLipCoord(outer_lip[2 * k - 1].x, sx, Len(outer_lip)),
        InnerLipCoord(outer_lip[2 * k - 1].y, sy, Len(outer_lip)))]

\* the inner lip of _generate_mouth_landmarks, lines 367-377
InnerLip(outer_lip) ==
  IF outer_lip = <<>> THEN <<>>
  ELSE MovedToCenter(outer_lip, SumX(outer_lip), SumY(outer_lip))

\* the mouth search region of _generate_mouth_landmarks: <<x, y, w, h>>
MouthRegion(face_w, face_h) ==
  <<(face_w * 25) \div 100, (face_h * 65) \div 100,
    (face_w * 50) \div 100, (face_h * 25) \div 100>>

WithInnerLip(outer_lip) == <<outer_lip, InnerLip(outer_lip)>>

\* _generate_mouth_landmarks: <<outer_lip, inner_lip>>
GenerateMouthLandmarks(face_x, face_y, face_w, face_h, found) ==
  LET m == MouthRegion(face_w, face_h)
  IN WithInnerLip(DetectLipContour(m[3], m[4], face_x + m[1], face_y + m[2], found))

\* _generate_precise_landmarks: the dict landmarks
GeneratePreciseLandmarks(face_x, face_y, face_w, face_h, found_l, found_r, found_m) ==
  LET eye_points == GenerateEyeLandmarks(face_x, face_y, face_w, face_h)
      brows == GenerateEyebrowLandmarks(face_x, face_y, face_w, face_h, found_l, found_r)
      nose == GenerateNoseLandmarks(face_x, face_y, face_w, face_h)
      mouth == GenerateMouthLandmarks(face_x, face_y, face_w, face_h, found_m)
  IN [face_outline |-> GenerateFaceOutline(face_x, face_y, face_w, face_h),
      left_eye |-> eye_points[1],
      right_eye |-> eye_points[2],
      left_eyebrow |-> brows[1],
      right_eyebrow |-> brows[2],
      nose_bridge |-> nose[1],
      nose_tip |-> nose[2],
      outer_lip |-> mouth[1],
      inner_lip |-> mouth[2]]

(***************************************************************************)
(* One call of _generate_precise_landmarks.  The face is a region           *)
(* (x, y, w, h) with w, h >= 1; brow_l, brow_r and lip are what the three  *)
(* contour extractions find in its pixels.  An extraction on an empty      *)
(* region finds nothing; a lip contour has an area above 100, so its       *)
(* region has more than 100 square pixels, and more than 200 when three    *)
(* vertices approximate it.                                                *)
(***************************************************************************)
FeatureKeys ==
  {"face_outline", "left_eye", "right_eye", "left_eyebrow", "right_eyebrow",
   "nose_bridge", "nose_tip", "outer_lip", "inner_lip"}

FaceSides == {1, 2, 7, MaxFace \div 2, MaxFace}

FaceShapes ==
  {<<s, s>> : s \in FaceSides} \cup {<<1, MaxFace>>, <<MaxFace, 1>>}

\* m vertices of an open curve in a region of rw x rh pixels, not in x order
BrowContour(rw, rh, m, s) ==
  [k \in 1..m |-> <<(s + 7 * (k - 1)) % rw, (k - 1) % rh>>]

\* the t-th pixel of the border of a region of rw x rh pixels, clockwise
PerimeterPoint(rw, rh, t) ==
  IF t < rw - 1 THEN <<t, 0>>
  ELSE IF t < (rw - 1) + (rh - 1) THEN <<rw - 1, t - (rw - 1)>>
  ELSE IF t < 2 * (rw - 1) + (rh - 1)
    THEN <<(rw - 1) - (t - (rw - 1) - (rh - 1)), rh - 1>>
  ELSE <<0, 2 * (rw - 1) + 2 * (rh - 1) - t>>

\* n vertices of a closed curve along the border of the region
LipContour(rw, rh, n, s) ==
  LET P == 2 * (rw - 1) + 2 * (rh - 1)
  IN [k \in 1..n |-> PerimeterPoint(rw, rh, (s + ((k - 1) * P) \div n) % P)]

BrowOutcomes(region) ==
  LET rw == region[3]
      rh == region[4]
  IN {Failed("raise"), Failed("none")}
     \cup {Found(BrowContour(rw, rh, m, 0)) :
             m \in {c \in {1, 2, MaxBrowPts} : c <= rw * rh}}

LipOutcomes(region) ==
  LET rw == region[3]
      rh == region[4]
  IN {Failed("raise"), Failed("none")}
     \cup (IF rw * rh > 0 THEN {Failed("small")} ELSE {})
     \cup {Found(LipContour(rw, rh, n, s)) :
             n \in {c \in {3, 4, 5, 7, MaxLipPts} :
                      /\ (rw - 1) * (rh - 1) > 100
                      /\ c < 4 => (rw - 1) * (rh - 1) > 200},
             s \in 0..MaxStart}

LandmarkInputs ==
  /\ \E shape \in FaceShapes : \E fx \in 0..MaxOrigin, fy \in 0..MaxOrigin :
       face = <<fx, fy, shape[1], shape[2]>>
  /\ brow_l \in BrowOutcomes(LeftBrowRegion(face[3], face[4]))
  /\ brow_r \in BrowOutcomes(RightBrowRegion(face[3], face[4]))
  /\ lip \in LipOutcomes(MouthRegion(face[3], face[4]))
  /\ landmarks = None

\* landmarks = self._generate_precise_landmarks(face_gray, face_color, x, y, w, h)
GenerateLandmarks ==
  /\ pc = "face"
  /\ pc' = "landmarks"
  /\ landmarks' = GeneratePreciseLandmarks(face[1], face[2], face[3], face[4],
                                           brow_l, brow_r, lip)
  /\ UNCHANGED <<face, brow_l, brow_r, lip>>
  /\ UNCHANGED filterVars
  /\ UNCHANGED overlayVars
  /\ UNCHANGED fitVars
  /\ UNCHANGED tryOnVars
  /\ UNCHANGED compareVars
  /\ UNCHANGED detectVars
  /\ UNCHANGED sharedVars
  /\ UNCHANGED dedupVars
  /\ UNCHANGED endpointVars

InitLandmarks ==
  pc = "face" /\ LandmarkInputs /\ FilterIdle /\ OverlayIdle /\ FitIdle
  /\ TryOnIdle /\ CompareIdle /\ DetectIdle /\ SharedIdle /\ DedupIdle /\ EndpointIdle

NextLandmarks == GenerateLandmarks

SpecLandmarks == InitLandmarks /\ [][NextLandmarks]_vars

Assembled == pc = "landmarks"

\* C3: whatever the three contour extractions find, and whichever of them
\* fail or raise, the landmark map returned for a face of width and height
\* >= 1 has exactly the nine feature keys and every key maps to a sequence of
\* at least one point.
C3_NineKeys ==
  Assembled =>
    /\ face[3] >= 1 /\ face[4] >= 1
    /\ DOMAIN landmarks = FeatureKeys
    /\ \A k \in FeatureKeys : Len(landmarks[k]) >= 1

\* the three extractions fail, one by raising, one by finding no contour and
\* one by finding a contour that is too small
C3_Witness ==
  /\ Assembled
  /\ brow_l.kind = "raise" /\ brow_r.kind = "none" /\ lip.kind = "small"
  /\ Len(landmarks["left_eyebrow"]) = 6
  /\ Len(landmarks["right_eyebrow"]) = 6
  /\ Len(landmarks["outer_lip"]) = 12
  /\ Len(landmarks["inner_lip"]) = 6

(***************************************************************************)
(* Eyewear anchors and target size: GlassesTryOn.apply_glasses, lines      *)
(* 52-110.  A box is <<x, y, w, h>> as detectMultiScale returns it; the    *)
(* eye boxes are relative to the upper half of the first face.             *)
(***************************************************************************)
MaxEyeX == 130     \* x of an eye box inside the face
MaxShapeW == 6     \* glasses_image.shape[1]
MaxShapeH == 3     \* glasses_image.shape[0]

\* sorted(eyes, key=lambda e: e[0])
SortedByBoxX(boxes) ==
  SortBy(boxes, {<<i, j>> \in (1..Len(boxes)) \X (1..Len(boxes)) :
                   boxes[i][1] < boxes[j][1]})

\* (fx + e[0] + e[2]//2, fy + e[1] + e[3]//2)
EyeCenter(fx, fy, e) == <<fx + e[1] + (e[3] \div 2), fy + e[2] + (e[4] \div 2)>>

LeftFirstUnordered(c1, c2) == <<c1, c2>>

\* lines 82-83: <<eye1_center, eye2_center>> with the left eye first
LeftFirst(c1, c2) == IF c1[1] > c2[1] THEN <<c2, c1>> ELSE <<c1, c2>>

\* int(np.sqrt(dx ** 2 + dy ** 2)); the root lies between 0 and |dx| + |dy|
EyeDistance(c1, c2) ==
  LET dx == c2[1] - c1[1]
      dy == c2[2] - c1[2]
      n == dx * dx + dy * dy
      top == (IF dx < 0 THEN 0 - dx ELSE dx) + (IF dy < 0 THEN 0 - dy ELSE dy)
  IN CHOOSE r \in 0..top : r * r <= n /\ n < (r + 1) * (r + 1)

GlassesWidthRounded(eye_distance) == (eye_distance * 5 + 1) \div 2

\* int(eye_distance * 2.5)
GlassesWidth(eye_distance) == (eye_distance * 5) \div 2

GlassesHeightInverted(glasses_width, shape) == (glasses_width * shape[2]) \div shape[1]

\* int(glasses_width * aspect_ratio), aspect_ratio = shape[0] / shape[1].  The
\* float64 product truncates to this quotient for every width up to 400 and
\* every shape of at most 4 rows and 8 columns.
GlassesHeight(glasses_width, shape) == (glasses_width * shape[1]) \div shape[2]

Int028Rounded(n) == (n * 28 + 50) \div 100

\* int(n * 0.28) and int(n * 0.45), for n up to 400
Int028(n) == (n * 28) \div 100
Int045(n) == (n * 45) \div 100

\* The locals of apply_glasses when it reaches the resize, or the reason why
\* it returns user_image before.
GlassesFit(face_list, eye_list, shape) ==
  IF Len(face_list) = 0 THEN [outcome |-> "no_face"]
  ELSE IF Len(eye_list) < 2 THEN [outcome |-> "no_eyes"]
  ELSE
    LET fx == face_list[1][1]
        fy == face_list[1][2]
        two == Take(SortedByBoxX(eye_list), 2)
        centers == LeftFirst(EyeCenter(fx, fy, two[1]), EyeCenter(fx, fy, two[2]))
        eye_distance == EyeDistance(centers[1], centers[2])
        glasses_width == GlassesWidth(eye_distance)
        glasses_height == GlassesHeight(glasses_width, shape)
    IN IF glasses_width <= 0 \/ glasses_height <= 0
         THEN [outcome |-> "degenerate",
               eye1_center |-> centers[1], eye2_center |-> centers[2],
               eye_distance |-> eye_distance,
               glasses_width |-> glasses_width, glasses_height |-> glasses_height]
         ELSE [outcome |-> "resize",
               eye1_center |-> centers[1], eye2_center |-> centers[2],
               eye_distance |-> eye_distance,
               glasses_width |-> glasses_width, glasses_height |-> glasses_height,
               x_offset |-> centers[1][1] - Int028(glasses_width),
               y_offset |-> centers[1][2] - Int045(glasses_height)]

(***************************************************************************)
(* One call of apply_glasses up to the resize.  The detectors return       *)
(* square boxes, faces of at least 100 and eyes of at least 20 pixels a    *)
(* side (minSize, lines 49 and 67), the eyes inside the upper half of the  *)
(* first face.                                                             *)
(***************************************************************************)
FaceSide == MaxEyeX + 30

FaceBoxes == {<<fx, 2 * fx, FaceSide, FaceSide>> : fx \in 0..MaxOrigin}

FirstEyes == {<<ex, 10, s, s>> : ex \in {0, 30}, s \in {20, 21, 44}}

SecondEyes == {<<ex, ey, s, s>> : ex \in 0..MaxEyeX, ey \in {10, 11}, s \in {20, 21}}

ThirdEyes == {<<5, 40, 20, 20>>, <<FaceSide - 20, 0, 20, 20>>}

EyeLists ==
  {<<>>}
  \cup {<<e1>> : e1 \in FirstEyes}
  \cup {<<e1, e2>> : e1 \in FirstEyes, e2 \in SecondEyes}
  \cup {<<e3, e1, e2>> : e1 \in FirstEyes, e2 \in {<<30, 10, 20, 20>>, <<100, 11, 21, 21>>},
                          e3 \in ThirdEyes}

FaceLists ==
  {<<>>} \cup {<<f>> : f \in FaceBoxes}
  \cup {<<f, <<0, 0, 100, 100>> >> : f \in FaceBoxes}

GlassesShapes == (1..MaxShapeH) \X (1..MaxShapeW)

FitInputs ==
  /\ glasses_faces \in FaceLists
  /\ eyes \in IF Len(glasses_faces) = 1 THEN EyeLists
              ELSE {<<>>, << <<0, 10, 20, 20>>, <<60, 10, 20, 20>> >>}
  /\ glasses_shape \in IF Len(glasses_faces) = 1 /\ Len(eyes) = 2 THEN GlassesShapes
                       ELSE {<<2, 5>>}
  /\ fit = None

\* apply_glasses from the face detection to the computation of the placement
FitGlasses ==
  /\ pc = "glasses"
  /\ pc' = "fitted"
  /\ fit' = GlassesFit(glasses_faces, eyes, glasses_shape)
  /\ UNCHANGED <<glasses_faces, eyes, glasses_shape>>
  /\ UNCHANGED filterVars
  /\ UNCHANGED overlayVars
  /\ UNCHANGED landmarkVars
  /\ UNCHANGED tryOnVars
  /\ UNCHANGED compareVars
  /\ UNCHANGED detectVars
  /\ UNCHANGED sharedVars
  /\ UNCHANGED dedupVars
  /\ UNCHANGED endpointVars

InitFit ==
  pc = "glasses" /\ FitInputs /\ FilterIdle /\ OverlayIdle /\ LandmarkIdle
  /\ TryOnIdle /\ CompareIdle /\ DetectIdle /\ SharedIdle /\ DedupIdle /\ EndpointIdle

NextFit == FitGlasses

SpecFit == InitFit /\ [][NextFit]_vars

\* the call has resolved two eye centres
Resolved == pc = "fitted" /\ fit.outcome \in {"degenerate", "resize"}

\* the call goes on to cv2.resize with (glasses_width, glasses_height)
Resizes == pc = "fitted" /\ fit.outcome = "resize"

\* the square of the Euclidean distance between the resolved eye centres
EyeDistanceSquared ==
  (fit.eye2_center[1] - fit.eye1_center[1]) * (fit.eye2_center[1] - fit.eye1_center[1])
  + (fit.eye2_center[2] - fit.eye1_center[2]) * (fit.eye2_center[2] - fit.eye1_center[2])

\* C9 as stated: the target width is 2.5 times the distance of the eye centres,
\* for every pair of eye centres.
C9_Original ==
  Resolved => 4 * fit.glasses_width * fit.glasses_width = 25 * EyeDistanceSquared

\* C9: the target width is 2.5 times the distance of the eye centres with both
\* the distance and the product truncated to an integer, width =
\* floor(2.5 * floor(distance)); a distance of 100 gives exactly 250 and a
\* distance of 60 exactly 150.
C9_Width ==
  Resolved =>
    /\ fit.eye_distance >= 0
    /\ fit.eye_distance * fit.eye_distance <= EyeDistanceSquared
    /\ EyeDistanceSquared < (fit.eye_distance + 1) * (fit.eye_distance + 1)
    /\ 2 * fit.glasses_width <= 5 * fit.eye_distance
    /\ 5 * fit.eye_distance < 2 * fit.glasses_width + 2
    /\ EyeDistanceSquared = 100 * 100 => fit.glasses_width = 250
    /\ EyeDistanceSquared = 60 * 60 => fit.glasses_width = 150

\* eye centres 100 apart give a target width of 250
C9_Witness ==
  Resolved /\ EyeDistanceSquared = 100 * 100 /\ fit.glasses_width = 250

\* |glasses_height / glasses_width - h / w| <= 0.01 * (h / w)
RatioWithinOnePercent ==
  LET h == glasses_shape[1]
      w == glasses_shape[2]
      diff == fit.glasses_height * w - fit.glasses_width * h
  IN 100 * (IF diff < 0 THEN 0 - diff ELSE diff) <= fit.glasses_width * h

\* C10 as stated: at target width 250 the resized overlay keeps the ratio h/w
\* within 1 percent, for every w, h >= 1.
C10_Original ==
  Resizes /\ fit.glasses_width = 250 => RatioWithinOnePercent

\* C10: at target width 250 the target height is floor(250 * h / w), and the
\* ratio of the resized overlay is within 1 percent of h/w whenever
\* h/w >= 0.4, that is whenever the target height is at least 100.
C10_Ratio ==
  Resizes /\ fit.glasses_width = 250 =>
    /\ fit.glasses_height * glasses_shape[2] <= 250 * glasses_shape[1]
    /\ 250 * glasses_shape[1] < (fit.glasses_height + 1) * glasses_shape[2]
    /\ 5 * glasses_shape[1] >= 2 * glasses_shape[2] => RatioWithinOnePercent

\* an overlay of 2 rows and 5 columns resized to 250 columns and 100 rows
C10_Witness ==
  /\ Resizes /\ fit.glasses_width = 250
  /\ glasses_shape = <<2, 5>> /\ fit.glasses_height = 100

(***************************************************************************)
(* The four try-on operations at the API boundary:                         *)
(* GlassesTryOn.apply_glasses, ClothingTryOn.apply_clothing,               *)
(* MakeupTryOn.apply_lipstick and MakeupTryOn.apply_eyeshadow.  One call   *)
(* with the caller's image, a product (an overlay image or a colour        *)
(* string) and the answers of the libraries the operation consults: the    *)
(* detectors, the landmark predictor, and the library call that raises,    *)
(* if one does.  A string is a sequence of one-character strings.          *)
(***************************************************************************)
MaxUser == 128    \* side of the caller's image

\* an image of one colour
Uniform(h, w, colour) ==
  [h |-> h, w |-> w, ch |-> Len(colour), base |-> colour, px |-> <<>>]

UserPatch == (19..21) \X (8..11)

\* the caller's image: one colour with a patch of different pixels
UserImage(seed) ==
  [h |-> MaxUser, w |-> MaxUser, ch |-> 3, base |-> Colours[(seed % 4) + 1],
   px |-> [p \in UserPatch |-> Colours[((seed + 2 * p[1] + p[2]) % 4) + 1]]]

UserImages == {UserImage(s) : s \in 0..MaxSeed}

\* cv2.resize(image, (new_w, new_h), interpolation=cv2.INTER_AREA) of an image
\* of one colour: every average of equal pixels is that pixel
Resized(img, new_w, new_h) == [img EXCEPT !.h = new_h, !.w = new_w]

\* the value an operation returns and the return statement it left by
Outcome(path, r) ==
  [path |-> path, buf |-> IF r.buf = "background" THEN "user_image" ELSE r.buf,
   h |-> r.h, w |-> r.w, base |-> r.base, px |-> r.px]

\* return user_image
Original(path, user) == Outcome(path, Returned("background", user))

\* return result, the value of the compositor
FromCompositor(r) == Outcome(IF r.buf = "background" THEN "no_overlap" ELSE "blend", r)

\* apply_glasses with the test of line 70 written len(eyes) < 1: eyes[1] raises
\* IndexError for a single eye
ApplyGlassesOneEye(user, glasses, e) ==
  IF e.raises \in {"cvtColor", "face_cascade"} THEN Original("error", user)
  ELSE IF Len(e.faces) = 0 THEN Original("no_face", user)
  ELSE IF e.raises = "eye_cascade" THEN Original("error", user)
  ELSE IF Len(e.eyes) < 1 THEN Original("no_eyes", user)
  ELSE IF Len(e.eyes) < 2 THEN Original("error", user)
  ELSE IF glasses.w = 0 THEN Original("error", user)
  ELSE
    LET placed == GlassesFit(e.faces, e.eyes, <<glasses.h, glasses.w>>)
    IN IF placed.outcome = "degenerate" THEN Original("degenerate", user)
       ELSE IF e.raises \in {"resize", "overlay"} THEN Original("error", user)
       ELSE FromCompositor(
              OverlayWithTransparency(
                user, Resized(glasses, placed.glasses_width, placed.glasses_height),
                placed.x_offset, placed.y_offset))

\* GlassesTryOn.apply_glasses(user_image, glasses_image)
ApplyGlasses(user, glasses, e) ==
  IF e.raises \in {"cvtColor", "face_cascade"} THEN Original("error", user)
  ELSE IF Len(e.faces) = 0 THEN Original("no_face", user)
  ELSE IF e.raises = "eye_cascade" THEN Original("error", user)
  ELSE IF Len(e.eyes) < 2 THEN Original("no_eyes", user)
  ELSE IF glasses.w = 0 THEN Original("error", user)
  ELSE
    LET placed == GlassesFit(e.faces, e.eyes, <<glasses.h, glasses.w>>)
    IN IF placed.outcome = "degenerate" THEN Original("degenerate", user)
       ELSE IF e.raises \in {"resize", "overlay"} THEN Original("error", user)
       ELSE FromCompositor(
              OverlayWithTransparency(
                user, Resized(glasses, placed.glasses_width, placed.glasses_height),
                placed.x_offset, placed.y_offset))

\* int(landmark.x * w) for landmark.x = n / 64: truncation toward zero
ToPixels(n, side) == TruncDiv(n * side, 64)

\* the n below 400 for which the float64 product n * 1.4 falls just below the
\* integer it equals in exact arithmetic
Int14Below == {45, 85, 90, 165, 170, 175, 180, 325, 330, 335, 340, 345, 350, 355, 360, 365}

\* the width scaled by 1.2 in place of 1.4
ClothingWidthNarrow(shoulder_width) == (shoulder_width * 12) \div 10

\* int(shoulder_width * 1.4)
ClothingWidth(shoulder_width) ==
  IF shoulder_width \in Int14Below
    THEN ((shoulder_width * 14) \div 10) - 1
    ELSE (shoulder_width * 14) \div 10

\* int(torso_height * 1.2), for torso_height up to 400
ClothingHeight(torso_height) == (torso_height * 12) \div 10

\* The locals of apply_clothing at the resize (lines 56-84); the pose gives the
\* left shoulder, the right shoulder and the left hip in 64ths of the image.
ClothingFit(user, pose) ==
  LET ls == <<ToPixels(pose.ls[1], user.w), ToPixels(pose.ls[2], user.h)>>
      rs == <<ToPixels(pose.rs[1], user.w), ToPixels(pose.rs[2], user.h)>>
      lh == <<ToPixels(pose.lh[1], user.w), ToPixels(pose.lh[2], user.h)>>
      shoulder_width == EyeDistance(ls, rs)  \* int(np.sqrt(...)), line 62
      torso_height == EyeDistance(lh, ls)
      clothing_width == ClothingWidth(shoulder_width)
      clothing_height == ClothingHeight(torso_height)
      shoulder_center_x == (ls[1] + rs[1]) \div 2
      shoulder_center_y == (ls[2] + rs[2]) \div 2
  IN [ls |-> ls, rs |-> rs, lh |-> lh,
      shoulder_width |-> shoulder_width, torso_height |-> torso_height,
      clothing_width |-> clothing_width, clothing_height |-> clothing_height,
      shoulder_center |-> <<shoulder_center_x, shoulder_center_y>>,
      x_offset |-> shoulder_center_x - (clothing_width \div 2),
      y_offset |-> shoulder_center_y - (clothing_height \div 10)]

\* apply_clothing without the test of lines 69-70: cv2.resize raises for a
\* target size of zero
ApplyClothingUnguarded(user, clothing, e) ==
  IF e.raises \in {"cvtColor", "pose"} THEN Original("error", user)
  ELSE IF ~e.pose.found THEN Original("no_pose", user)
  ELSE
    LET placed == ClothingFit(user, e.pose)
    IN IF \/ placed.clothing_width <= 0 \/ placed.clothing_height <= 0
          \/ clothing.h = 0 \/ clothing.w = 0 \/ e.raises \in {"resize", "overlay"}
         THEN Original("error", user)
       ELSE FromCompositor(
              OverlayImage(user,
                           Resized(clothing, placed.clothing_width, placed.clothing_height),
                           placed.x_offset, placed.y_offset))

\* ClothingTryOn.apply_clothing(user_image, clothing_image)
ApplyClothing(user, clothing, e) ==
  IF e.raises \in {"cvtColor", "pose"} THEN Original("error", user)
  ELSE IF ~e.pose.found THEN Original("no_pose", user)
  ELSE
    LET placed == ClothingFit(user, e.pose)
    IN IF placed.clothing_width <= 0 \/ placed.clothing_height <= 0
         THEN Original("degenerate", user)
       ELSE IF clothing.h = 0 \/ clothing.w = 0 \/ e.raises \in {"resize", "overlay"}
         THEN Original("error", user)
       ELSE FromCompositor(
              OverlayImage(user,
                           Resized(clothing, placed.clothing_width, placed.clothing_height),
                           placed.x_offset, placed.y_offset))

HexChars ==
  <<"0", "1", "2", "3", "4", "5", "6", "7", "8", "9", "A", "B", "C", "D", "E", "F">>

HexDigits == {HexChars[i] : i \in 1..16}

HexValue(c) == (CHOOSE i \in 1..16 : HexChars[i] = c) - 1

\* hex_color.lstrip('#')
LStrip(s) ==
  LET first == CHOOSE k \in 1..(Len(s) + 1) :
                 /\ \A j \in 1..(k - 1) : s[j] = "#"
                 /\ k <= Len(s) => s[k] # "#"
  IN [k \in 1..(Len(s) - first + 1) |-> s[first + k - 1]]

\* s[i:i+2]
Slice2(s, i) == [k \in 1..Max(0, Min(Len(s), i + 2) - i) |-> s[i + k]]

\* int(t, 16) for a string of '#', hexadecimal digits and other letters: the
\* value, or -1 where int raises ValueError
ParseHex(t) ==
  IF t = <<>> \/ \E k \in 1..Len(t) : t[k] \notin HexDigits THEN 0 - 1
  ELSE IF Len(t) = 1 THEN HexValue(t[1])
  ELSE 16 * HexValue(t[1]) + HexValue(t[2])

\* MakeupTryOn._hex_to_bgr(hex_color): the tuple, or the ValueError
HexToBgr(hex_color) ==
  LET stripped == LStrip(hex_color)
      rgb == [k \in 1..3 |-> ParseHex(Slice2(stripped, 2 * (k - 1)))]
  IN IF \E k \in 1..3 : rgb[k] < 0
       THEN [ok |-> FALSE]
       ELSE [ok |-> TRUE, bgr |-> <<rgb[3], rgb[2], rgb[1]>>]

\* one pixel of cv2.cvtColor(mask, cv2.COLOR_BGR2GRAY)
Gray(c) == (1868 * c[1] + 9617 * c[2] + 4899 * c[3] + 8192) \div 16384

\* the <<tenths, mask, image>> for which the float64 value of the blend falls
\* just below the integer it equals in exact arithmetic, for image values that
\* occur in Colours
MakeupBelow == {<<4, 2, 77>>, <<4, 7, 77>>}

\* (alpha * mask * 1.0 + (1 - alpha * 1.0) * user_image).astype(np.uint8),
\* alpha = tenths / 10, one channel of one pixel
MakeupChannel(tenths, m, u) ==
  IF <<tenths, m, u>> \in MakeupBelow
    THEN ((tenths * m + (10 - tenths) * u) \div 10) - 1
    ELSE (tenths * m + (10 - tenths) * u) \div 10

\* the mask after fillPoly and GaussianBlur: bgr_color inside the painted
\* area (level 2), half of it on the blurred edge (level 1), zero elsewhere
Mask(user, bgr_color, area) ==
  [h |-> user.h, w |-> user.w, ch |-> 3, base |-> <<0, 0, 0>>,
   px |-> [p \in DOMAIN area |->
             [k \in 1..3 |-> IF area[p] = 2 THEN bgr_color[k] ELSE bgr_color[k] \div 2]]]

\* lines 87-94 and 149-155: threshold of the gray mask at 1, then the blend
Painted(tenths, user, mask) ==
  [user EXCEPT !.px =
     [p \in DOMAIN user.px \cup DOMAIN mask.px |->
        IF Gray(PixelAt(mask, p)) > 1
          THEN [k \in 1..3 |-> MakeupChannel(tenths, PixelAt(mask, p)[k], PixelAt(user, p)[k])]
          ELSE PixelAt(user, p)]]

\* the body shared by apply_lipstick (tenths = 6) and apply_eyeshadow (tenths = 4)
ApplyMakeup(tenths, user, color, e) ==
  IF e.predictor = None THEN Original("no_predictor", user)
  ELSE IF ~HexToBgr(color).ok THEN Original("error", user)
  ELSE IF e.raises \in {"cvtColor", "detector"} THEN Original("error", user)
  ELSE IF e.faces = 0 THEN Original("no_face", user)
  ELSE IF e.raises \in {"predictor", "fillPoly", "GaussianBlur"} THEN Original("error", user)
  ELSE Outcome("painted",
               Returned("result", Painted(tenths, user, Mask(user, HexToBgr(color).bgr, e.area))))

\* apply_lipstick with the opacity of apply_eyeshadow
ApplyLipstickFaint(user, color, e) == ApplyMakeup(4, user, color, e)

\* MakeupTryOn.apply_lipstick(user_image, color)
ApplyLipstick(user, color, e) == ApplyMakeup(6, user, color, e)

\* MakeupTryOn.apply_eyeshadow(user_image, color)
ApplyEyeshadow(user, color, e) == ApplyMakeup(4, user, color, e)

(***************************************************************************)
(* The inputs of one call.                                                 *)
(***************************************************************************)
OverlayColours ==
  {Colours[4], Colours[3] \o <<AlphaVals[2]>>, Colours[2] \o <<AlphaVals[1]>>,
   Colours[1] \o <<AlphaVals[4]>>}

GlassesImages ==
  {Uniform(s[1], s[2], c) : s \in {<<2, 5>>, <<1, 6>>, <<0, 5>>, <<2, 0>>},
                            c \in OverlayColours}

ClothingImages ==
  {Uniform(s[1], s[2], c) : s \in {<<3, 4>>, <<0, 4>>, <<3, 0>>}, c \in OverlayColours}

GlassesEnvs ==
  {[raises |-> r, faces |-> f, eyes |-> e] :
     r \in {"none", "cvtColor", "face_cascade", "eye_cascade", "resize", "overlay"},
     f \in {<<>>, << <<0, 0, 100, 100>> >>, << <<20, 10, 100, 100>>, <<0, 0, 100, 100>> >>},
     e \in {<<>>, << <<0, 10, 20, 20>> >>,
            << <<0, 10, 20, 20>>, <<0, 10, 20, 20>> >>,
            << <<0, 10, 20, 20>>, <<2, 10, 20, 20>> >>,
            << <<4, 11, 21, 21>>, <<0, 10, 20, 20>> >>,
            << <<0, 10, 20, 20>>, <<60, 10, 20, 20>> >>}}

Keypoints == {"left_shoulder", "right_shoulder", "left_hip", "right_hip"}

\* the coordinates of the four landmarks that apply_clothing reads
PoseShapes ==
  {[ls |-> <<6, 10>>, rs |-> <<5, 10>>, lh |-> <<6, 11>>, rh |-> <<5, 11>>],
   [ls |-> <<8, 10>>, rs |-> <<4, 10>>, lh |-> <<8, 14>>, rh |-> <<4, 14>>],
   [ls |-> <<6, 10>>, rs |-> <<6, 10>>, lh |-> <<6, 11>>, rh |-> <<6, 11>>],
   [ls |-> <<6, 10>>, rs |-> <<5, 10>>, lh |-> <<6, 10>>, rh |-> <<5, 10>>],
   [ls |-> <<0 - 6, 10>>, rs |-> <<0 - 7, 10>>, lh |-> <<0 - 6, 11>>, rh |-> <<0 - 7, 11>>]}

\* results.pose_landmarks: nothing, or the 33 landmarks, of which the four
\* used.  A keypoint that the pose model does not see is not absent from the
\* list: it comes with estimated coordinates and a visibility near 0
\* (missing).
Poses ==
  {[found |-> FALSE]} \cup
  {[found |-> TRUE, ls |-> c.ls, rs |-> c.rs, lh |-> c.lh, rh |-> c.rh, missing |-> m] :
     c \in PoseShapes, m \in SUBSET Keypoints}

ClothingEnvs ==
  {[raises |-> r, pose |-> p] : r \in {"none", "cvtColor", "pose", "resize", "overlay"},
     p \in Poses}

ColorStrings ==
  {<<"#", "F", "F", "0", "0", "8", "0">>,
   <<"F", "F", "0", "0", "8", "0">>,
   <<"#", "#", "0", "0", "0", "0", "F", "F">>,
   <<"#", "0", "1", "0", "1", "0", "1">>,
   <<"#", "F", "F", "F", "F", "F">>,
   <<"#", "F", "F", "F">>,
   <<"#", "G", "G", "0", "0", "0", "0">>,
   <<"#">>,
   <<>>}

\* where fillPoly and GaussianBlur leave the mask different from zero, and
\* how much: nowhere when the landmarks lie outside the image
PaintedAreas ==
  {<<>>,
   [p \in (20..21) \X (10..12) |-> IF p[2] = 11 THEN 2 ELSE 1]}

MakeupEnvs ==
  {[raises |-> r, predictor |-> m, faces |-> n, area |-> a] :
     r \in {"none", "cvtColor", "detector", "predictor", "fillPoly", "GaussianBlur"},
     m \in {None, "loaded"}, n \in 0..1, a \in PaintedAreas}

Operations == {"apply_glasses", "apply_clothing", "apply_lipstick", "apply_eyeshadow"}

TryOnInputs ==
  /\ call \in Operations
  /\ user_image \in UserImages
  /\ product \in CASE call = "apply_glasses" -> GlassesImages
                   [] call = "apply_clothing" -> ClothingImages
                   [] OTHER -> ColorStrings
  /\ env \in CASE call = "apply_glasses" -> GlassesEnvs
               [] call = "apply_clothing" -> ClothingEnvs
               [] OTHER -> MakeupEnvs
  /\ result = NotCalled

\* the caller's buffer after the call: when the returned object is that
\* buffer, its pixels are the returned pixels
AfterCall(user, out) ==
  IF out.buf = "user_image" THEN [user EXCEPT !.px = out.px] ELSE user

Return(out) ==
  /\ pc' = "returned"
  /\ result' = out
  /\ user_image' = AfterCall(user_image, out)
  /\ UNCHANGED <<call, product, env>>
  /\ UNCHANGED filterVars
  /\ UNCHANGED overlayVars
  /\ UNCHANGED landmarkVars
  /\ UNCHANGED fitVars
  /\ UNCHANGED compareVars
  /\ UNCHANGED detectVars
  /\ UNCHANGED sharedVars
  /\ UNCHANGED dedupVars
  /\ UNCHANGED endpointVars

CallApplyGlasses ==
  /\ pc = "tryon"
  /\ call = "apply_glasses"
  /\ Return(ApplyGlasses(user_image, product, env))

CallApplyClothing ==
  /\ pc = "tryon"
  /\ call = "apply_clothing"
  /\ Return(ApplyClothing(user_image, product, env))

CallApplyLipstick ==
  /\ pc = "tryon"
  /\ call = "apply_lipstick"
  /\ Return(ApplyLipstick(user_image, product, env))

CallApplyEyeshadow ==
  /\ pc = "tryon"
  /\ call = "apply_eyeshadow"
  /\ Return(ApplyEyeshadow(user_image, product, env))

InitTryOn ==
  pc = "tryon" /\ TryOnInputs /\ FilterIdle /\ OverlayIdle /\ LandmarkIdle /\ FitIdle
  /\ CompareIdle /\ DetectIdle /\ SharedIdle /\ DedupIdle /\ EndpointIdle

NextTryOn ==
  CallApplyGlasses \/ CallApplyClothing \/ CallApplyLipstick \/ CallApplyEyeshadow

SpecTryOn == InitTryOn /\ [][NextTryOn]_vars

Makeup == call \in {"apply_lipstick", "apply_eyeshadow"}

\* a colour string that is not six hexadecimal digits after its leading '#'
Malformed(color) ==
  \/ Len(LStrip(color)) # 6
  \/ \E k \in 1..Len(LStrip(color)) : LStrip(color)[k] \notin HexDigits

\* the failures that the contract lists, as the inputs of the call show them
FailureInput ==
  \/ env.raises # "none"
  \/ call = "apply_glasses" /\ (Len(env.faces) = 0 \/ Len(env.eyes) < 2)
  \/ call = "apply_clothing" /\ ~env.pose.found
  \/ call \in {"apply_glasses", "apply_clothing"} /\ (product.h = 0 \/ product.w = 0)
  \/ Makeup /\ (env.faces = 0 \/ Malformed(product))

\* the returned buffer holds the pixels of the original image
ReturnsOriginal ==
  /\ result.h = user_image.h /\ result.w = user_image.w
  /\ result.base = user_image.base
  /\ \A p \in DOMAIN result.px : result.px[p] = PixelAt(user_image, p)

\* C7: the four operations are total, and on every failure path (nothing
\* detected, fewer than two eyes, an overlay of zero width or height, a
\* malformed colour string, an internal error) the returned buffer is the
\* original image, pixel for pixel.  Violated: a colour string of five
\* hexadecimal digits is read as a colour and painted.
C7_Original == pc = "returned" => (FailureInput => ReturnsOriginal)

\* the differing pixels of the returned buffer
ChangedPixels == {p \in DOMAIN result.px : result.px[p] # PixelAt(user_image, p)}

\* C8: a call leaves every pixel of the caller's image as it was, and a
\* result that was composited is a buffer distinct from the caller's image.
C8_CopyOnWrite ==
  [][pc' = "returned" =>
       /\ user_image' = user_image
       /\ result'.path \in {"blend", "painted"} => result'.buf = "result"
       /\ result'.buf = "user_image" => result'.px = user_image.px]_vars

C8_Witness ==
  /\ pc = "returned"
  /\ call = "apply_glasses"
  /\ result.path = "blend"
  /\ result.buf = "result"
  /\ ChangedPixels # {}
  /\ user_image \in UserImages

(***************************************************************************)
(* Placement of the eyewear: apply_glasses, lines 108-113.                 *)
(***************************************************************************)
\* how far the top-left corner lies to the left of and above the left eye
LeftOfEye == fit.eye1_center[1] - fit.x_offset
AboveEye == fit.eye1_center[2] - fit.y_offset

\* C11 as stated: the top-left corner of the resized overlay is at
\* (left_eye.x - 0.28 * target_width, left_eye.y - 0.45 * target_height).
C11_Original ==
  Resizes =>
    /\ 100 * LeftOfEye = 28 * fit.glasses_width
    /\ 100 * AboveEye = 45 * fit.glasses_height

\* C11: the top-left corner is at (left_eye.x - floor(0.28 * target_width),
\* left_eye.y - floor(0.45 * target_height)), left_eye being the resolved
\* centre with the smaller x; an inter-eye distance of 60 gives the width 150
\* and the corner x = left_eye.x - 42.
C11_Placement ==
  Resizes =>
    /\ fit.eye1_center[1] <= fit.eye2_center[1]
    /\ 100 * LeftOfEye <= 28 * fit.glasses_width
    /\ 28 * fit.glasses_width < 100 * (LeftOfEye + 1)
    /\ 100 * AboveEye <= 45 * fit.glasses_height
    /\ 45 * fit.glasses_height < 100 * (AboveEye + 1)
    /\ fit.eye_distance = 60 =>
         fit.glasses_width = 150 /\ fit.x_offset = fit.eye1_center[1] - 42

\* eye centres 60 apart: the overlay is 150 wide and starts 42 left of the eye
C11_Witness ==
  /\ Resizes
  /\ EyeDistanceSquared = 60 * 60
  /\ fit.glasses_width = 150
  /\ LeftOfEye = 42

(***************************************************************************)
(* The inner lip: _generate_mouth_landmarks, lines 367-377.                *)
(***************************************************************************)
\* c lies at most one below n times 0.7 * p + 0.3 * (sum / n), and not above
NearMoved(c, p, sum, n) ==
  /\ 10 * n * c <= 7 * n * p + 3 * sum
  /\ 7 * n * p + 3 * sum <= 10 * n * (c + 1)

InsideFace(pt) ==
  /\ face[1] <= pt.x /\ pt.x < face[1] + face[3]
  /\ face[2] <= pt.y /\ pt.y < face[2] + face[4]

\* the lip extraction ends in the parametric fallback (lines 418-431)
LipFallback == lip.kind # "contour" \/ Len(lip.pts) < 4

\* the features of the returned dict that were generated parametrically
ParametricKeys ==
  {"face_outline", "left_eye", "right_eye", "nose_bridge", "nose_tip"}
  \cup {"left_eyebrow", "right_eyebrow"}
  \cup (IF LipFallback THEN {"outer_lip"} ELSE {})

AllInside(key) == \A i \in 1..Len(landmarks[key]) : InsideFace(landmarks[key][i])

EyesResolved ==
  /\ call = "apply_glasses"
  /\ env.raises \notin {"cvtColor", "face_cascade", "eye_cascade"}
  /\ Len(env.faces) > 0 /\ Len(env.eyes) >= 2
  /\ product.w # 0

\* apply_clothing has resolved the keypoints of the torso
TorsoResolved ==
  /\ call = "apply_clothing"
  /\ env.raises \notin {"cvtColor", "pose"}
  /\ env.pose.found

\* the anchors give a target rectangle of width <= 0 or height <= 0
TargetDegenerate ==
  \/ /\ EyesResolved
     /\ GlassesFit(env.faces, env.eyes, <<product.h, product.w>>).outcome = "degenerate"
  \/ /\ TorsoResolved
     /\ \/ ClothingFit(user_image, env.pose).clothing_width <= 0
        \/ ClothingFit(user_image, env.pose).clothing_height <= 0

UsesLeftmost(i, j) ==
  /\ i # j
  /\ \A k \in (1..Len(eyes)) \ {i, j} :
       eyes[k][1] >= eyes[i][1] /\ eyes[k][1] >= eyes[j][1]
  /\ {fit.eye1_center, fit.eye2_center}
       = {EyeCenter(glasses_faces[1][1], glasses_faces[1][2], eyes[i]),
          EyeCenter(glasses_faces[1][1], glasses_faces[1][2], eyes[j])}

\* C15 as stated: the left centre has the smaller x and the inter-eye
\* distance is the Euclidean distance of the two centres.
C15_Original ==
  Resolved =>
    /\ fit.eye1_center[1] <= fit.eye2_center[1]
    /\ fit.eye_distance * fit.eye_distance = EyeDistanceSquared

\* C15: for two or more eye boxes, the centre used as the left eye has an x
\* not greater than the centre used as the right eye, both are centres of the
\* two boxes of smallest x, and the inter-eye distance is the Euclidean
\* distance of exactly these two centres, truncated to an integer.
C15_Ordering ==
  Resolved =>
    /\ Len(eyes) >= 2
    /\ fit.eye1_center[1] <= fit.eye2_center[1]
    /\ \E i, j \in 1..Len(eyes) : UsesLeftmost(i, j)
    /\ fit.eye_distance >= 0
    /\ fit.eye_distance * fit.eye_distance <= EyeDistanceSquared
    /\ EyeDistanceSquared < (fit.eye_distance + 1) * (fit.eye_distance + 1)

\* three eye boxes, the box of smallest x having its centre to the right of
\* the centre of the next one: the two centres are exchanged
C15_Witness ==
  /\ Resolved
  /\ Len(eyes) = 3
  /\ \E i, j \in 1..3 :
       /\ UsesLeftmost(i, j)
       /\ eyes[i][1] < eyes[j][1]
       /\ eyes[i][1] + (eyes[i][3] \div 2) > eyes[j][1] + (eyes[j][3] \div 2)
  /\ fit.eye1_center[1] < fit.eye2_center[1]

(***************************************************************************)
(* Fewer than two eyes: apply_glasses, lines 62-72.                        *)
(***************************************************************************)
\* the eye detector ran on the first face and found fewer than two eyes
FewEyes ==
  /\ call = "apply_glasses"
  /\ env.raises \notin {"cvtColor", "face_cascade", "eye_cascade"}
  /\ Len(env.faces) > 0
  /\ Len(env.eyes) < 2

KeypointMissing ==
  /\ call = "apply_clothing"
  /\ env.raises \notin {"cvtColor", "pose"}
  /\ ~env.pose.found \/ env.pose.missing # {}

\* C17: apply_clothing returns the input image unchanged whenever any of the
\* four body keypoints is missing from the pose result.  Violated: the only
\* test is that of pose_landmarks as a whole; with a hip that the pose model
\* does not see, the overlay is sized from its estimated position and blended.
C17_Original == pc = "returned" /\ KeypointMissing => ReturnsOriginal

(***************************************************************************)
(* Size and placement of the apparel: apply_clothing, lines 61-87.         *)
(***************************************************************************)
\* the locals of the call that has returned
Torso == ClothingFit(user_image, env.pose)

PointDistanceSquared(a, b) ==
  (a[1] - b[1]) * (a[1] - b[1]) + (a[2] - b[2]) * (a[2] - b[2])

\* the squares of distance(left_shoulder, right_shoulder) and of
\* distance(left_shoulder, left_hip), in pixels
ShoulderSquared == PointDistanceSquared(Torso.ls, Torso.rs)
TorsoSquared == PointDistanceSquared(Torso.ls, Torso.lh)

\* the target rectangle of the overlay, and its part inside the image
TargetRect ==
  Crop(Torso.y_offset, Torso.y_offset + Torso.clothing_height,
       Torso.x_offset, Torso.x_offset + Torso.clothing_width)
InImage == Pixels(user_image.h, user_image.w)

\* C18 as stated: width = 1.4 * shoulder distance, height = 1.2 * torso
\* distance, horizontal centre at the midpoint of the shoulders, top edge at
\* the midpoint's y - 0.1 * height.
C18_Original ==
  pc = "returned" /\ TorsoResolved /\ ~TargetDegenerate =>
    /\ 25 * Torso.clothing_width * Torso.clothing_width = 49 * ShoulderSquared
    /\ 25 * Torso.clothing_height * Torso.clothing_height = 36 * TorsoSquared
    /\ 2 * Torso.x_offset + Torso.clothing_width = Torso.ls[1] + Torso.rs[1]
    /\ 10 * Torso.y_offset = 5 * (Torso.ls[2] + Torso.rs[2]) - Torso.clothing_height

\* C18: with every step truncated to an integer: shoulder_width and
\* torso_height are the floors of the two distances, the target width is
\* floor(1.4 * shoulder_width) or one less, the target height
\* floor(1.2 * torso_height), shoulder_center the floor of the midpoint, the
\* left edge shoulder_center.x - floor(width / 2) and the top edge
\* shoulder_center.y - floor(0.1 * height); the overlay is blended into
\* exactly the part of that rectangle that lies inside the image.
C18_Apparel ==
  pc = "returned" /\ TorsoResolved =>
    /\ Torso.shoulder_width * Torso.shoulder_width <= ShoulderSquared
    /\ ShoulderSquared < (Torso.shoulder_width + 1) * (Torso.shoulder_width + 1)
    /\ Torso.torso_height * Torso.torso_height <= TorsoSquared
    /\ TorsoSquared < (Torso.torso_height + 1) * (Torso.torso_height + 1)
    /\ 10 * Torso.clothing_width <= 14 * Torso.shoulder_width
    /\ 14 * Torso.shoulder_width <= 10 * (Torso.clothing_width + 1)
    /\ 10 * Torso.clothing_height <= 12 * Torso.torso_height
    /\ 12 * Torso.torso_height < 10 * (Torso.clothing_height + 1)
    /\ 2 * Torso.shoulder_center[1] <= Torso.ls[1] + Torso.rs[1]
    /\ Torso.ls[1] + Torso.rs[1] <= 2 * Torso.shoulder_center[1] + 1
    /\ 2 * Torso.shoulder_center[2] <= Torso.ls[2] + Torso.rs[2]
    /\ Torso.ls[2] + Torso.rs[2] <= 2 * Torso.shoulder_center[2] + 1
    /\ 2 * (Torso.shoulder_center[1] - Torso.x_offset) <= Torso.clothing_width
    /\ Torso.clothing_width <= 2 * (Torso.shoulder_center[1] - Torso.x_offset) + 1
    /\ 10 * (Torso.shoulder_center[2] - Torso.y_offset) <= Torso.clothing_height
    /\ Torso.clothing_height < 10 * (Torso.shoulder_center[2] - Torso.y_offset + 1)
    /\ result.path = "blend" =>
         DOMAIN result.px = DOMAIN user_image.px \cup (TargetRect \cap InImage)
    /\ result.path = "no_overlap" => TargetRect \cap InImage = {}

\* shoulders 8 pixels apart and a torso of 8: an overlay of 11 by 9 blended
\* with its left edge 5 left of the shoulder centre
C18_Witness ==
  /\ pc = "returned"
  /\ TorsoResolved
  /\ result.path = "blend"
  /\ Torso.shoulder_width = 8 /\ Torso.clothing_width = 11
  /\ Torso.torso_height = 8 /\ Torso.clothing_height = 9
  /\ Torso.x_offset = Torso.shoulder_center[1] - 5
  /\ ChangedPixels # {}

(***************************************************************************)
(* The cosmetics blend: makeup.py lines 84-94 and 146-155.                 *)
(***************************************************************************)
\* the call painted: it reached the blend
Paints == pc = "returned" /\ Makeup /\ result.path = "painted"

\* the blurred fill of the call
BlurredFill == Mask(user_image, HexToBgr(product).bgr, env.area)

\* the fixed opacity of the operation, in tenths
Tenths == IF call = "apply_lipstick" THEN 6 ELSE 4

\* the pixels of the image that the model follows
Followed == DOMAIN user_image.px \cup DOMAIN env.area

\* r is opacity * fill + (1 - opacity) * destination, truncated to an integer
\* (never above the exact value and at most one below it)
BlendOf(r, fill, dest) ==
  \A k \in 1..3 :
    /\ 10 * r[k] <= Tenths * fill[k] + (10 - Tenths) * dest[k]
    /\ Tenths * fill[k] + (10 - Tenths) * dest[k] <= 10 * (r[k] + 1)

\* C19 as stated: every pixel whose blurred fill is non-zero becomes
\* opacity * fill + (1 - opacity) * destination (here: up to the conversion to
\* an integer), and every pixel whose blurred fill is zero keeps its value.
C19_Original ==
  Paints =>
    \A p \in Followed :
      IF PixelAt(BlurredFill, p) # <<0, 0, 0>>
        THEN BlendOf(PixelAt(result, p), PixelAt(BlurredFill, p), PixelAt(user_image, p))
        ELSE PixelAt(result, p) = PixelAt(user_image, p)

\* C19: at opacity 0.6 (lipstick) and 0.4 (eyeshadow), every pixel whose
\* blurred fill has a gray value above 1 becomes opacity * fill +
\* (1 - opacity) * destination truncated to an integer in each channel, and
\* every other pixel, whether its blurred fill is zero or not, keeps its
\* destination value.
C19_Blend ==
  Paints =>
    /\ DOMAIN result.px = Followed
    /\ \A p \in Followed :
         IF Gray(PixelAt(BlurredFill, p)) > 1
           THEN BlendOf(PixelAt(result, p), PixelAt(BlurredFill, p), PixelAt(user_image, p))
           ELSE PixelAt(result, p) = PixelAt(user_image, p)

\* lipstick #FF0080 on a white pixel inside the lip: (128, 0, 255) at 0.6 over
\* (255, 255, 255) gives (178, 102, 255)
C19_Witness ==
  /\ Paints
  /\ call = "apply_lipstick"
  /\ \E p \in Followed :
       /\ PixelAt(BlurredFill, p) = <<128, 0, 255>>
       /\ PixelAt(user_image, p) = <<255, 255, 255>>
       /\ PixelAt(result, p) = <<178, 102, 255>>

(***************************************************************************)
(* Comparison of two face encodings: FaceDetectionService.compare_faces.   *)
(* Distances and tolerances are counted in millionths, a confidence in     *)
(* hundredths of a percent.  face_recognition.face_distance answers with   *)
(* the Euclidean distance of the two encodings, or raises (encodings of    *)
(* different lengths).                                                     *)
(***************************************************************************)
MaxTenths == 12    \* the largest distance, in tenths, before the fine part

One == 1000000

\* round(confidence, 2), the confidence given in millionths of 100 percent;
\* no value of the model lies halfway between two hundredths
Round2(c) == (c + 50) \div 100

\* compare_faces with the comparison written distance < tolerance
CompareFacesStrict(fd, tol) ==
  IF ~fd.ok THEN [error |-> TRUE]
  ELSE [error |-> FALSE,
        is_match |-> fd.d < tol,
        distance |-> fd.d,
        confidence |-> Round2(Max(0, One - fd.d)),
        tolerance_used |-> tol]

\* compare_faces(known_encoding, unknown_encoding, tolerance): the dict
CompareFaces(fd, tol) ==
  IF ~fd.ok THEN [error |-> TRUE]
  ELSE [error |-> FALSE,
        is_match |-> fd.d <= tol,
        distance |-> fd.d,
        confidence |-> Round2(Max(0, One - fd.d)),
        tolerance_used |-> tol]

DefaultTolerance == 600000

Distances ==
  {100000 * k + f : k \in 0..MaxTenths, f \in {0, 1, 49, 51, 4999, 50001, 99999}}

Tolerances ==
  {DefaultTolerance, 0 - 100000, 0, 500000, 600001, 650001, One, 1200049}

CompareInputs ==
  /\ face_distance \in {[ok |-> FALSE, d |-> 0]} \cup {[ok |-> TRUE, d |-> d] : d \in Distances}
  /\ tolerance \in Tolerances
  /\ comparison = None

CallCompareFaces ==
  /\ pc = "compare"
  /\ pc' = "compared"
  /\ comparison' = CompareFaces(face_distance, tolerance)
  /\ UNCHANGED <<face_distance, tolerance>>
  /\ UNCHANGED filterVars
  /\ UNCHANGED overlayVars
  /\ UNCHANGED landmarkVars
  /\ UNCHANGED fitVars
  /\ UNCHANGED tryOnVars
  /\ UNCHANGED detectVars
  /\ UNCHANGED sharedVars
  /\ UNCHANGED dedupVars
  /\ UNCHANGED endpointVars

InitCompare ==
  pc = "compare" /\ CompareInputs /\ FilterIdle /\ OverlayIdle /\ LandmarkIdle /\ FitIdle
  /\ TryOnIdle /\ DetectIdle /\ SharedIdle /\ DedupIdle /\ EndpointIdle

NextCompare == CallCompareFaces

SpecCompare == InitCompare /\ [][NextCompare]_vars

\* the comparison was made and did not end in the error dict
Compared == pc = "compared" /\ face_distance.ok

\* max(0, 1 - distance) * 100, in millionths of 100 percent
ExactConfidence == Max(0, One - face_distance.d)

\* C20 as stated: a match exactly when distance <= tolerance, and the
\* reported confidence is max(0, 1 - distance) * 100.
C20_Original ==
  Compared =>
    /\ comparison.is_match <=> face_distance.d <= tolerance
    /\ 100 * comparison.confidence = ExactConfidence

\* C20: a match exactly when distance <= tolerance (distance = tolerance is a
\* match); the reported confidence is max(0, 1 - distance) * 100 rounded to
\* two decimals, lies in [0, 100] and is 0 for every distance >= 1.
C20_Compare ==
  Compared =>
    /\ ~comparison.error
    /\ comparison.is_match <=> face_distance.d <= tolerance
    /\ face_distance.d = tolerance => comparison.is_match
    /\ 100 * comparison.confidence - ExactConfidence \in (0 - 50)..50
    /\ comparison.confidence \in 0..10000
    /\ face_distance.d >= One => comparison.confidence = 0

\* a distance of 0.6 at the default tolerance: a match, confidence 40.00
C20_Witness ==
  /\ Compared
  /\ tolerance = DefaultTolerance
  /\ face_distance.d = DefaultTolerance
  /\ comparison.is_match
  /\ comparison.confidence = 4000

(***************************************************************************)
(* One call of AdvancedFaceDetectionService.detect_faces_and_landmarks.    *)
(* detect_env holds what the libraries answer during the call: decodes,    *)
(* whether _decode_base64_image returns an image; raises, the step that    *)
(* raises ("detectMultiScale", "landmarks" or None); contours, what every  *)
(* contour extraction finds ("none" or "raise").  width, height and faces  *)
(* are gray.shape and the regions detectMultiScale returns.  Without an    *)
(* image there is no shape and no detection.                               *)
(***************************************************************************)

\* _create_feature_outlines: the features whose point list is not empty
CreateFeatureOutlines(lm) == [k \in {f \in DOMAIN lm : Len(lm[f]) > 0} |-> lm[k]]

\* _extract_facial_landmarks; confidence 0.90 in hundredths
ExtractFacialLandmarks(r, face_index, contours) ==
  LET lm == GeneratePreciseLandmarks(r[1], r[2], r[3], r[4], Failed(contours),
                                     Failed(contours), Failed(contours))
  IN [face |-> [x |-> r[1], y |-> r[2], width |-> r[3], height |-> r[4],
                confidence |-> 90],
      face_index |-> face_index,
      landmarks |-> lm,
      feature_outlines |-> CreateFeatureOutlines(lm)]

InvalidImage == [error |-> "Invalid image data"]
DetectionFailed == [error |-> "Face detection failed"]
NoFaces == [faces_detected |-> 0, faces |-> <<>>, message |-> "No faces detected"]

\* the dict of lines 85-92
Detected(kept, W, H, contours) ==
  [faces_detected |-> Len(kept),
   faces |-> [i \in 1..Len(kept) |-> ExtractFacialLandmarks(kept[i], i - 1, contours)],
   image_dimensions |-> [width |-> W, height |-> H]]

\* the emptiness test of line 75 applied to the detector's list
DetectFacesAndLandmarksRaw(e, W, H, raw) ==
  LET kept == SelectSeq(raw, LAMBDA r : KeepFace(r, W, H))
  IN IF ~e.decodes THEN InvalidImage
     ELSE IF e.raises = "detectMultiScale" THEN DetectionFailed
     ELSE IF Len(raw) = 0 THEN NoFaces
     ELSE IF e.raises = "landmarks" THEN DetectionFailed
     ELSE Detected(kept, W, H, e.contours)

\* detect_faces_and_landmarks, lines 38-98
DetectFacesAndLandmarks(e, W, H, raw) ==
  LET kept == SelectSeq(raw, LAMBDA r : KeepFace(r, W, H))
  IN IF ~e.decodes THEN InvalidImage
     ELSE IF e.raises = "detectMultiScale" THEN DetectionFailed
     ELSE IF Len(kept) = 0 THEN NoFaces
     ELSE IF e.raises = "landmarks" THEN DetectionFailed
     ELSE Detected(kept, W, H, e.contours)

\* Image sides of the requests: landscape or square images, and a result of
\* several regions on images of at most MaxListDim pixels.
DetectSides == {1, MaxListDim, MaxDim, MaxWide}

DetectEnvs ==
  {[decodes |-> TRUE, raises |-> r, contours |-> c] :
     r \in {None, "detectMultiScale", "landmarks"}, c \in {"none", "raise"}}

DetectInputs ==
  /\ \/ /\ detect_env = [decodes |-> FALSE, raises |-> None, contours |-> "none"]
        /\ width = 0 /\ height = 0 /\ faces = <<>>
     \/ /\ detect_env \in DetectEnvs
        /\ detect_env.raises # None => detect_env.contours = "none"
        /\ \E W \in DetectSides, H \in DetectSides :
             /\ H <= MaxDim
             /\ width = W
             /\ height = H
             /\ faces \in
                  IF detect_env.raises = "detectMultiScale" THEN {<<>>}
                  ELSE SeqsUpTo(RawRegions(W, H),
                                IF W * H <= MaxListDim THEN MaxFaces ELSE 1)
  /\ filtered_faces = None
  /\ detection = None

CallDetectFacesAndLandmarks ==
  /\ pc = "request"
  /\ pc' = "answered"
  /\ detection' = DetectFacesAndLandmarks(detect_env, width, height, faces)
  /\ filtered_faces' =
       IF detect_env.decodes /\ detect_env.raises # "detectMultiScale"
         THEN SelectSeq(faces, LAMBDA r : KeepFace(r, width, height))
         ELSE None
  /\ UNCHANGED <<width, height, faces, detect_env>>
  /\ UNCHANGED overlayVars
  /\ UNCHANGED landmarkVars
  /\ UNCHANGED fitVars
  /\ UNCHANGED tryOnVars
  /\ UNCHANGED compareVars
  /\ UNCHANGED sharedVars
  /\ UNCHANGED dedupVars
  /\ UNCHANGED endpointVars

InitDetect ==
  pc = "request" /\ DetectInputs /\ OverlayIdle /\ LandmarkIdle /\ FitIdle
  /\ TryOnIdle /\ CompareIdle /\ SharedIdle /\ DedupIdle /\ EndpointIdle

NextDetect == CallDetectFacesAndLandmarks

SpecDetect == InitDetect /\ [][NextDetect]_vars

\* the image decoded, the detector answered, and the filter kept no region
NoSurvivor ==
  /\ pc = "answered"
  /\ detect_env.decodes
  /\ detect_env.raises # "detectMultiScale"
  /\ \A j \in 1..Len(faces) : ~KeepFace(faces[j], width, height)

\* C21: when no raw region survives the face candidate filter (the detector
\* returning none included), the call returns the empty result: faces_detected
\* = 0, an empty faces list and no 'error' key; a result with an 'error' key is
\* returned only when the image does not decode or a step of the call raises.
C21_EmptyResult ==
  pc = "answered" =>
    /\ NoSurvivor =>
         /\ "error" \notin DOMAIN detection
         /\ detection.faces_detected = 0
         /\ detection.faces = <<>>
         /\ detection = NoFaces
    /\ "error" \in DOMAIN detection =>
         ~detect_env.decodes \/ detect_env.raises # None
    /\ ~NoSurvivor /\ "error" \notin DOMAIN detection =>
         detection.faces_detected >= 1

\* the detector returned a region, the filter dropped it, and the call
\* answered with the empty result although landmark extraction would raise
C21_Witness ==
  /\ NoSurvivor
  /\ Len(faces) >= 1
  /\ detect_env.raises = "landmarks"
  /\ detection = NoFaces

(***************************************************************************)
(* Calls on the shared service instances.  The instances are built once,   *)
(* at import: advanced_face_detection_service (advanced_face_detection.py  *)
(* line 462) and glasses_service (tryon.py line 20); __init__ stores the   *)
(* cascade classifiers and no method assigns a field afterwards.  A        *)
(* classifier answers by the pixels it is given: it is a function from the *)
(* image to the regions found.  Every call has its own frame: its          *)
(* arguments, its position and its locals faces and eyes.  The callers'    *)
(* steps interleave in any order.                                          *)
(***************************************************************************)
MaxCalls == 2   \* calls in flight on the shared instances

\* image_data strings: two that decode and one that does not
ImageData == {"a", "b", "bad"}

\* gray.shape of the decoded image, <<width, height>>
ShapeOf(data) == IF data = "a" THEN <<5, 5>> ELSE <<2, 2>>

AdvancedServices ==
  {[face_cascade |-> fc, use_dlib |-> FALSE] :
     fc \in {[data \in {"a", "b"} |->
                IF data = "a" THEN << <<1, 1, 3, 3>> >> ELSE <<>>],
             [data \in {"a", "b"} |->
                IF data = "a" THEN << <<0, 0, 1, 1>>, <<1, 0, 4, 4>> >>
                ELSE << <<0, 0, 2, 2>>, <<0, 0, 1, 1>> >>]}}

\* user images are named by their seed
GlassesServices ==
  {[face_cascade |-> fc, eye_cascade |-> ec] :
     fc \in {[s \in 0..1 |-> IF s = 0 THEN << <<0, 0, 100, 100>> >> ELSE <<>>],
             [s \in 0..1 |-> << <<20, 10, 100, 100>>, <<0, 0, 100, 100>> >>]},
     ec \in {[s \in 0..1 |->
                IF s = 0 THEN << <<0, 10, 20, 20>>, <<2, 10, 20, 20>> >>
                ELSE << <<4, 11, 21, 21>>, <<0, 10, 20, 20>> >>]}}

DetectCalls == {[op |-> "detect", arg |-> data] : data \in ImageData}

GlassesCalls ==
  {[op |-> "glasses", arg |-> [user |-> s, glasses |-> Uniform(2, 5, c)]] :
     s \in 0..1, c \in {Colours[3] \o <<AlphaVals[2]>>}}

CompositeCalls ==
  {[op |-> "composite",
    arg |-> [background |-> UserImage(0), overlay |-> Uniform(2, 5, Colours[4]),
             x |-> x, y |-> 9]] : x \in {18, MaxUser}}

\* the frame of a call that has not run yet
Frame(call_) ==
  [op |-> call_.op, arg |-> call_.arg, pc |-> "start", faces |-> <<>>, eyes |-> <<>>,
   result |-> NotCalled]

\* every call reads the locals of the first caller's frame
LocalsShared(c) == calls[1]

\* the locals of a call are those of its own frame
LocalsOf(c) == calls[c]

\* what the libraries answer for image_data inside detect_faces_and_landmarks
DetectEnvOf(data) ==
  [decodes |-> data # "bad", raises |-> None, contours |-> "none"]

SharedInputs ==
  /\ \E adv \in AdvancedServices, gl \in GlassesServices :
       services = [advanced |-> adv, glasses |-> gl]
  /\ calls \in [1..MaxCalls -> {Frame(k) : k \in DetectCalls \cup GlassesCalls
                                                 \cup CompositeCalls}]

Others ==
  /\ pc' = pc
  /\ UNCHANGED services
  /\ UNCHANGED filterVars
  /\ UNCHANGED overlayVars
  /\ UNCHANGED landmarkVars
  /\ UNCHANGED fitVars
  /\ UNCHANGED tryOnVars
  /\ UNCHANGED compareVars
  /\ UNCHANGED detectVars
  /\ UNCHANGED dedupVars
  /\ UNCHANGED endpointVars

\* image = self._decode_base64_image(image_data); if image is None: return
Decode(c) ==
  /\ calls[c].op = "detect" /\ calls[c].pc = "start"
  /\ calls' =
       IF calls[c].arg = "bad"
         THEN [calls EXCEPT ![c].pc = "done", ![c].result = InvalidImage]
         ELSE [calls EXCEPT ![c].pc = "decoded"]
  /\ Others

\* faces = self.face_cascade.detectMultiScale(gray, ...)
DetectMultiScale(c) ==
  /\ calls[c].op = "detect" /\ calls[c].pc = "decoded"
  /\ calls' = [calls EXCEPT ![c].pc = "detected",
                            ![c].faces = services.advanced.face_cascade[calls[c].arg]]
  /\ Others

\* lines 56-92: the filter, the landmarks of every kept region, the return
FilterAndExtract(c) ==
  /\ calls[c].op = "detect" /\ calls[c].pc = "detected"
  /\ calls' = [calls EXCEPT
                 ![c].pc = "done",
                 ![c].result =
                   DetectFacesAndLandmarks(DetectEnvOf(calls[c].arg),
                                           ShapeOf(calls[c].arg)[1],
                                           ShapeOf(calls[c].arg)[2],
                                           LocalsOf(c).faces)]
  /\ Others

\* apply_glasses lines 43-53: faces = self.face_cascade.detectMultiScale(gray);
\* if len(faces) == 0: return user_image
GlassesDetectFaces(c) ==
  /\ calls[c].op = "glasses" /\ calls[c].pc = "start"
  /\ LET found == services.glasses.face_cascade[calls[c].arg.user]
     IN calls' =
          IF Len(found) = 0
            THEN [calls EXCEPT
                    ![c].pc = "done",
                    ![c].result = Original("no_face", UserImage(calls[c].arg.user))]
            ELSE [calls EXCEPT ![c].pc = "faces", ![c].faces = found]
  /\ Others

\* apply_glasses lines 56-68: eyes = self.eye_cascade.detectMultiScale(roi_gray)
GlassesDetectEyes(c) ==
  /\ calls[c].op = "glasses" /\ calls[c].pc = "faces"
  /\ calls' = [calls EXCEPT ![c].pc = "eyes",
                            ![c].eyes = services.glasses.eye_cascade[calls[c].arg.user]]
  /\ Others

\* apply_glasses lines 70-115: anchors, target size, resize, compositor, return
GlassesFitAndOverlay(c) ==
  /\ calls[c].op = "glasses" /\ calls[c].pc = "eyes"
  /\ calls' = [calls EXCEPT
                 ![c].pc = "done",
                 ![c].result =
                   ApplyGlasses(UserImage(calls[c].arg.user), calls[c].arg.glasses,
                                [raises |-> "none", faces |-> LocalsOf(c).faces,
                                 eyes |-> LocalsOf(c).eyes])]
  /\ Others

\* glasses_service._overlay_with_transparency(background, overlay, x, y)
Composite(c) ==
  /\ calls[c].op = "composite" /\ calls[c].pc = "start"
  /\ calls' = [calls EXCEPT
                 ![c].pc = "done",
                 ![c].result =
                   OverlayWithTransparency(calls[c].arg.background, calls[c].arg.overlay,
                                           calls[c].arg.x, calls[c].arg.y)]
  /\ Others

InitShared ==
  pc = "serving" /\ SharedInputs /\ FilterIdle /\ OverlayIdle /\ LandmarkIdle
  /\ FitIdle /\ TryOnIdle /\ CompareIdle /\ DetectIdle /\ DedupIdle /\ EndpointIdle

NextShared ==
  \E c \in 1..MaxCalls :
    \/ Decode(c)
    \/ DetectMultiScale(c)
    \/ FilterAndExtract(c)
    \/ GlassesDetectFaces(c)
    \/ GlassesDetectEyes(c)
    \/ GlassesFitAndOverlay(c)
    \/ Composite(c)

SpecShared == InitShared /\ [][NextShared]_vars

Done(c) == pc = "serving" /\ calls[c].pc = "done"

\* what the same call returns when it runs alone on the instances
Alone(c) ==
  IF calls[c].op = "detect"
    THEN DetectFacesAndLandmarks(
           DetectEnvOf(calls[c].arg), ShapeOf(calls[c].arg)[1], ShapeOf(calls[c].arg)[2],
           IF calls[c].arg = "bad" THEN <<>>
           ELSE services.advanced.face_cascade[calls[c].arg])
  ELSE IF calls[c].op = "glasses"
    THEN ApplyGlasses(UserImage(calls[c].arg.user), calls[c].arg.glasses,
                      [raises |-> "none",
                       faces |-> services.glasses.face_cascade[calls[c].arg.user],
                       eyes |-> services.glasses.eye_cascade[calls[c].arg.user]])
  ELSE OverlayWithTransparency(calls[c].arg.background, calls[c].arg.overlay,
                               calls[c].arg.x, calls[c].arg.y)

SameArguments(c1, c2) ==
  calls[c1].op = calls[c2].op /\ calls[c1].arg = calls[c2].arg

EqualCallsEqualResults ==
  \A c1, c2 \in 1..MaxCalls :
    Done(c1) /\ Done(c2) /\ SameArguments(c1, c2) =>
      calls[c1].result = calls[c2].result

ResultOfArguments ==
  \A c \in 1..MaxCalls : Done(c) => calls[c].result = Alone(c)

EyeWindows(face_w, face_h) ==
  [left_eye |-> <<(face_w * 20) \div 100, (face_h * 35) \div 100,
                  (face_w * 25) \div 100, (face_h * 15) \div 100>>,
   right_eye |-> <<(face_w * 55) \div 100, (face_h * 35) \div 100,
                   (face_w * 25) \div 100, (face_h * 15) \div 100>>]

\* the point p of the outline of window win, relative to the centre
\* (eye_x + eye_w // 2, eye_y + eye_h // 2) of the window
FromEyeCentre(p, win) ==
  [x |-> p.x - (face[1] + win[1] + (win[3] \div 2)),
   y |-> p.y - (face[2] + win[2] + (win[4] \div 2))]

\* C23 as stated: every point of the 12-point eye outline above the eye
\* centre (smaller image y) is at most 0.4 * eye_h from it vertically, every
\* point below the centre at most 0.5 * eye_h, and every point is within
\* 0.5 * eye_w of the centre horizontally.
C23_Original ==
  Assembled =>
    \A k \in {"left_eye", "right_eye"} :
      LET win == EyeWindows(face[3], face[4])[k]
      IN /\ Len(landmarks[k]) = 12
         /\ \A i \in 1..12 :
              LET q == FromEyeCentre(landmarks[k][i], win)
              IN /\ q.y < 0 => 10 * (0 - q.y) <= 4 * win[4]
                 /\ q.y > 0 => 10 * q.y <= 5 * win[4]
                 /\ 2 * q.x <= win[3] /\ 2 * (0 - q.x) <= win[3]

(***************************************************************************)
(* C24: what _detect_eyebrow_contour returns for a contour.                *)
(***************************************************************************)
\* the points returned for the eyebrow of the region, and what was found in it
BrowReturned ==
  {[points |-> landmarks["left_eyebrow"], found |-> brow_l,
    region |-> LeftBrowRegion(face[3], face[4])],
   [points |-> landmarks["right_eyebrow"], found |-> brow_r,
    region |-> RightBrowRegion(face[3], face[4])]}

\* C24 as stated: for a simplified eyebrow contour of M >= 1 vertices the
\* function returns min(M, 8) points in non-decreasing x order, the 8
\* smallest-x vertices translated by the origin of the region; when no contour
\* is found or the extraction raises, it returns the 6-point arch.
C24_Original ==
  Assembled =>
    \A b \in BrowReturned :
      IF b.found.kind = "contour"
        THEN /\ Len(b.points) = Min(Len(b.found.pts), 8)
             /\ \A i \in 1..(Len(b.points) - 1) : b.points[i].x <= b.points[i + 1].x
             /\ b.points = SortedBrowContour(face[1] + b.region[1],
                                             face[2] + b.region[2], b.found)
        ELSE b.points = EyebrowFallback(b.region[3], b.region[4],
                                        face[1] + b.region[1], face[2] + b.region[2])

(***************************************************************************)
(* C25: the outer lip is the sorted contour or the parametric mouth.       *)
(***************************************************************************)
\* the vertices of the lip contour in image coordinates, as lines 413-419
\* build them
LipVertices ==
  Translated(lip.pts, face[1] + MouthRegion(face[3], face[4])[1],
             face[2] + MouthRegion(face[3], face[4])[2])

\* the 12-point mouth of lines 433-448 for the mouth region of the face
LipFallbackPoints ==
  MouthFallback(MouthRegion(face[3], face[4])[3], MouthRegion(face[3], face[4])[4],
                face[1] + MouthRegion(face[3], face[4])[1],
                face[2] + MouthRegion(face[3], face[4])[2])

\* out holds n of the vertices, each vertex at most as often as the contour
\* has it, in non-decreasing polar angle around the centroid of all vertices,
\* and every vertex with a smaller angle than the last point of out is in out
SortedVertices(out, n) ==
  /\ Len(out) = n
  /\ \A i \in 1..n :
       Cardinality({j \in 1..n : out[j] = out[i]})
         <= Cardinality({k \in 1..Len(LipVertices) : LipVertices[k] = out[i]})
  /\ \A i \in 1..(n - 1) :
       ~AngleBefore(out[i + 1], out[i], SumX(LipVertices), SumY(LipVertices),
                    Len(LipVertices))
  /\ \A k \in 1..Len(LipVertices) :
       AngleBefore(LipVertices[k], out[n], SumX(LipVertices), SumY(LipVertices),
                   Len(LipVertices))
         => \E i \in 1..n : out[i] = LipVertices[k]

\* C25 as stated: the outer lip is the simplified contour that passes the area
\* threshold, sorted by polar angle and cut to 16 points, or, exactly when no
\* contour passes the area threshold, the 12-point parametric mouth; a
\* contour that passes the threshold is never replaced by the fallback.
C25_Original ==
  Assembled =>
    IF lip.kind = "contour"
      THEN SortedVertices(landmarks["outer_lip"], Min(Len(lip.pts), 16))
      ELSE landmarks["outer_lip"] = LipFallbackPoints

\* C25 amended: the outer lip is the simplified contour sorted by polar angle
\* around its centroid and cut to 16 points when the largest contour has an
\* area above 100 and at least 4 simplified vertices; in every other case (no
\* contour, area of at most 100, fewer than 4 vertices, or a raise) it is the
\* 12-point parametric mouth.
C25_OuterLip ==
  Assembled =>
    IF lip.kind = "contour" /\ Len(lip.pts) >= 4
      THEN SortedVertices(landmarks["outer_lip"], Min(Len(lip.pts), 16))
      ELSE /\ landmarks["outer_lip"] = LipFallbackPoints
           /\ Len(landmarks["outer_lip"]) = 12

\* a contour of more than 16 vertices has been sorted and cut to 16
C25_Witness ==
  /\ Assembled
  /\ lip.kind = "contour"
  /\ Len(lip.pts) > 16
  /\ Len(landmarks["outer_lip"]) = 16
  /\ landmarks["outer_lip"] # Take(LipVertices, 16)

(***************************************************************************)
(* C26: the two crops of the compositors.                                  *)
(***************************************************************************)
\* the locals of lines 141-151 of glasses.py, the same as lines 115-125 of
\* clothing.py, for the arguments of the call
ValidRegion ==
  LET x1 == Max(0, pos_x)
      y1 == Max(0, pos_y)
      x2 == Min(background.w, pos_x + overlay.w)
      y2 == Min(background.h, pos_y + overlay.h)
      ov_x1 == Max(0, 0 - pos_x)
      ov_y1 == Max(0, 0 - pos_y)
  IN [x1 |-> x1, y1 |-> y1, x2 |-> x2, y2 |-> y2,
      ov_x1 |-> ov_x1, ov_y1 |-> ov_y1,
      ov_x2 |-> ov_x1 + (x2 - x1), ov_y2 |-> ov_y1 + (y2 - y1)]

\* the overlay rectangle [x, x + ov_w) x [y, y + ov_h) meets the destination
Intersects ==
  /\ pos_x < background.w /\ pos_x + overlay.w > 0
  /\ pos_y < background.h /\ pos_y + overlay.h > 0

\* the overlay as the blend reads it, with its opacity channel
WithOpacity == IF overlay.ch = 3 THEN BGR2BGRA(overlay) ELSE overlay

\* C26: whenever the overlay rectangle intersects the destination, the overlay
\* crop [ov_x1, ov_x2) x [ov_y1, ov_y2) lies within the overlay
\* (0 <= ov_x1 < ov_x2 <= ov_w and 0 <= ov_y1 < ov_y2 <= ov_h) and has the
\* width and height of the destination crop [x1, x2) x [y1, y2), which lies
\* within the destination; every pixel of the destination crop is blended
\* with the overlay pixel at the same offset in the overlay crop, so no index
\* leaves either buffer.
C26_CropInside ==
  \A c \in Compositors :
    pc = "overlay" /\ returned[c] # NotCalled /\ Intersects =>
      LET r == ValidRegion
      IN /\ 0 <= r.ov_x1 /\ r.ov_x1 < r.ov_x2 /\ r.ov_x2 <= overlay.w
         /\ 0 <= r.ov_y1 /\ r.ov_y1 < r.ov_y2 /\ r.ov_y2 <= overlay.h
         /\ 0 <= r.x1 /\ r.x1 < r.x2 /\ r.x2 <= background.w
         /\ 0 <= r.y1 /\ r.y1 < r.y2 /\ r.y2 <= background.h
         /\ r.ov_x2 - r.ov_x1 = r.x2 - r.x1
         /\ r.ov_y2 - r.ov_y1 = r.y2 - r.y1
         /\ returned[c].buf = "result"
         /\ \A p \in Crop(r.y1, r.y2, r.x1, r.x2) :
              LET q == <<r.ov_y1 + (p[1] - r.y1), r.ov_x1 + (p[2] - r.x1)>>
              IN /\ q \in Pixels(overlay.h, overlay.w)
                 /\ p \in Pixels(background.h, background.w)
                 /\ PixelAt(returned[c], p)
                      = BlendPixel(PixelAt(WithOpacity, q), PixelAt(background, p))

\* both compositors have blended an overlay that hangs over the top left
\* corner of the destination and over its right edge
C26_Witness ==
  /\ pc = "overlay"
  /\ \A c \in Compositors : returned[c] # NotCalled /\ returned[c].buf = "result"
  /\ pos_x < 0 /\ pos_y < 0
  /\ pos_x + overlay.w > background.w
  /\ ValidRegion.ov_x1 > 0 /\ ValidRegion.ov_x2 < overlay.w

(***************************************************************************)
(* C27: the pixels outside the intersection.                               *)
(***************************************************************************)
\* the pixels of the destination outside [x1, x2) x [y1, y2)
OutsideRegion ==
  Pixels(background.h, background.w)
    \ Crop(ValidRegion.y1, ValidRegion.y2, ValidRegion.x1, ValidRegion.x2)

\* C27: compositing changes no destination pixel outside the intersection of
\* the overlay rectangle with the destination: every result pixel outside
\* [x1, x2) x [y1, y2) equals the destination pixel at the same position, and
\* the result has the dimensions of the destination.
C27_Frame ==
  \A c \in Compositors :
    pc = "overlay" /\ returned[c] # NotCalled =>
      /\ returned[c].h = background.h
      /\ returned[c].w = background.w
      /\ \A p \in OutsideRegion : PixelAt(returned[c], p) = PixelAt(background, p)

\* both compositors have changed a pixel inside the intersection, and the
\* destination has pixels outside it that are not black
C27_Witness ==
  /\ pc = "overlay"
  /\ \A c \in Compositors :
       /\ returned[c] # NotCalled
       /\ returned[c].buf = "result"
       /\ \E p \in Pixels(background.h, background.w) \ OutsideRegion :
            PixelAt(returned[c], p) # PixelAt(background, p)
  /\ \E p \in OutsideRegion : PixelAt(background, p) # <<0, 0, 0>>

(***************************************************************************)
(* C28: the eyewear and the apparel compositor.                            *)
(***************************************************************************)
BothCalled ==
  pc = "overlay" /\ \A c \in Compositors : returned[c] # NotCalled

\* C28: _overlay_with_transparency and _overlay_image are equivalent: for
\* every destination, every overlay of 3 or 4 channels and every placement
\* they return the same result, the destination itself on the
\* empty-intersection path and equal fresh buffers otherwise.
C28_Equivalent ==
  BothCalled =>
    /\ returned["glasses"] = returned["clothing"]
    /\ ~Intersects <=> returned["clothing"].buf = "background"

\* both compositors have blended a half-transparent overlay into the
\* destination and changed it
C28_Witness ==
  /\ BothCalled
  /\ returned["glasses"].buf = "result"
  /\ returned["clothing"].buf = "result"
  /\ overlay.ch = 4
  /\ \E p \in Pixels(background.h, background.w) :
       /\ PixelAt(returned["clothing"], p) # PixelAt(background, p)
       /\ p \notin OutsideRegion
       /\ PixelAt(returned["clothing"], p)
            # SubSeq(PixelAt(overlay, <<ValidRegion.ov_y1 + (p[1] - ValidRegion.y1),
                                       ValidRegion.ov_x1 + (p[2] - ValidRegion.x1)>>), 1, 3)

(***************************************************************************)
(* SimpleFaceDetectionService._remove_duplicate_faces.  A box is           *)
(* <<x, y, w, h>> as detectMultiScale returns it, at least 1 x 1.           *)
(***************************************************************************)
MaxBoxes == 3   \* boxes in the list of detections
MaxBoxX == 2    \* x coordinate of a box

DetectedBoxes ==
  {<<x, 0, w, h>> : x \in 0..MaxBoxX, w \in 1..2, h \in 1..2}

\* overlap_x * overlap_y of lines 116-118
OverlapArea(a, b) ==
  Max(0, Min(a[1] + a[3], b[1] + b[3]) - Max(a[1], b[1]))
    * Max(0, Min(a[2] + a[4], b[2] + b[4]) - Max(a[2], b[2]))

\* the test of line 124 with >= in place of >
IsDuplicateInclusive(a, existing) ==
  2 * OverlapArea(a, existing) >= Min(a[3] * a[4], existing[3] * existing[4])

\* overlap_area > 0.5 * min(face_area, existing_area)
IsDuplicate(a, existing) ==
  2 * OverlapArea(a, existing) > Min(a[3] * a[4], existing[3] * existing[4])

\* unique_faces after the first n boxes of the loop of lines 109-130
RECURSIVE UniqueAfter(_, _)
UniqueAfter(s, n) ==
  IF n = 0 THEN <<>>
  ELSE LET before == UniqueAfter(s, n - 1)
       IN IF \E i \in 1..Len(before) : IsDuplicate(s[n], before[i])
            THEN before
            ELSE Append(before, s[n])

\* _remove_duplicate_faces(faces)
RemoveDuplicateFaces(s) == IF Len(s) <= 1 THEN s ELSE UniqueAfter(s, Len(s))

DedupInputs ==
  /\ raw_faces \in SeqsUpTo(DetectedBoxes, MaxBoxes)
  /\ unique_faces = None

\* faces = self._remove_duplicate_faces(faces)
CallRemoveDuplicateFaces ==
  /\ pc = "detections"
  /\ pc' = "unique"
  /\ unique_faces' = RemoveDuplicateFaces(raw_faces)
  /\ UNCHANGED raw_faces
  /\ UNCHANGED filterVars
  /\ UNCHANGED overlayVars
  /\ UNCHANGED landmarkVars
  /\ UNCHANGED fitVars
  /\ UNCHANGED tryOnVars
  /\ UNCHANGED compareVars
  /\ UNCHANGED detectVars
  /\ UNCHANGED sharedVars
  /\ UNCHANGED endpointVars

InitDedup ==
  pc = "detections" /\ DedupInputs /\ FilterIdle /\ OverlayIdle /\ LandmarkIdle
  /\ FitIdle /\ TryOnIdle /\ CompareIdle /\ DetectIdle /\ SharedIdle /\ EndpointIdle

NextDedup == CallRemoveDuplicateFaces

SpecDedup == InitDedup /\ [][NextDedup]_vars

\* the two boxes overlap by more than half the area of the smaller one
OverlapsMoreThanHalf(a, b) ==
  LET ox == Min(a[1] + a[3], b[1] + b[3]) - Max(a[1], b[1])
      oy == Min(a[2] + a[4], b[2] + b[4]) - Max(a[2], b[2])
      smaller == IF a[3] * a[4] < b[3] * b[4] THEN a[3] * a[4] ELSE b[3] * b[4]
  IN ox > 0 /\ oy > 0 /\ 2 * ox * oy > smaller

\* the strictly increasing selections of n positions of the input
Selections(n) ==
  {f \in [1..n -> 1..Len(raw_faces)] : \A i \in 1..(n - 1) : f[i] < f[i + 1]}

\* C29: the output of _remove_duplicate_faces is an order-preserving sub-list
\* of the input in which no two boxes overlap by more than 50% of the smaller
\* box's area; the first input box is always kept; and every removed box
\* overlaps some earlier kept box by more than 50% of the smaller of the two
\* areas.
C29_Unique ==
  pc = "unique" =>
    /\ \E kept \in Selections(Len(unique_faces)) :
         /\ \A i \in 1..Len(unique_faces) : unique_faces[i] = raw_faces[kept[i]]
         /\ \A j \in 1..Len(raw_faces) :
              (\A i \in 1..Len(unique_faces) : kept[i] # j) =>
                \E i \in 1..Len(unique_faces) :
                  kept[i] < j /\ OverlapsMoreThanHalf(raw_faces[j], raw_faces[kept[i]])
    /\ \A i, j \in 1..Len(unique_faces) :
         i < j => ~OverlapsMoreThanHalf(unique_faces[i], unique_faces[j])
    /\ Len(raw_faces) >= 1 => Len(unique_faces) >= 1 /\ unique_faces[1] = raw_faces[1]

\* of three boxes the second was removed as a duplicate of the first, and the
\* third, which overlaps the removed one by more than half, was kept
C29_Witness ==
  /\ pc = "unique"
  /\ Len(raw_faces) = 3
  /\ unique_faces = <<raw_faces[1], raw_faces[3]>>
  /\ OverlapsMoreThanHalf(raw_faces[2], raw_faces[3])
  /\ 2 * OverlapArea(raw_faces[1], raw_faces[3])
       = Min(raw_faces[1][3] * raw_faces[1][4], raw_faces[3][3] * raw_faces[3][4])

(***************************************************************************)
(* The try-on endpoint, process_tryon of api/tryon.py.  A request is the   *)
(* form: category, whether the user image decodes (imdecode returns None   *)
(* otherwise), whether a product image is attached, the colour, and what   *)
(* the processing after validation does: the service returns an image,     *)
(* returns None, or a call outside the services' own try blocks raises.    *)
(* FastAPI answers an HTTPException raised by the endpoint with its        *)
(* status_code.                                                            *)
(***************************************************************************)
Categories == {"clothing", "glasses", "makeup"}

Requests ==
  [category : Categories \cup {"hats", ""},
   image_decodes : BOOLEAN,
   product_image : BOOLEAN,
   color : {None, "#FF0080"},
   processing : {"image", "none", "raises"}]

\* raise HTTPException(status_code=..., detail=...)
HTTPException(status_code, detail) ==
  [raised |-> "HTTPException", status_code |-> status_code, detail |-> detail]

\* an exception raised by a library call
LibraryError == [raised |-> "Exception", status_code |-> 0, detail |-> "library error"]

\* return TryOnResponse(success=True, ...)
TryOnResponse ==
  [raised |-> None, status_code |-> 200, detail |-> "Try-on processed successfully"]

\* the body of the try block, lines 43-95: what it returns or raises
TryBlock(req) ==
  IF req.category \notin Categories
    THEN HTTPException(400, "Invalid category")
  ELSE IF ~req.image_decodes
    THEN HTTPException(400, "Invalid image format")
  ELSE IF req.category = "clothing" /\ ~req.product_image
    THEN HTTPException(400, "Product image required for clothing")
  ELSE IF req.category = "glasses" /\ ~req.product_image
    THEN HTTPException(400, "Product image required for glasses")
  ELSE IF req.processing = "raises" THEN LibraryError
  ELSE IF req.processing = "none"
    THEN HTTPException(500, "Failed to process try-on")
  ELSE TryOnResponse

\* process_tryon: the try block under `except Exception as e: raise
\* HTTPException(status_code=500, detail=str(e))`.  HTTPException is an
\* Exception, so the handler of line 97 also catches the ones raised inside
\* the try block.
ProcessTryon(req) ==
  LET out == TryBlock(req)
  IN IF out.raised # None
       THEN HTTPException(500, <<"str", out.raised, out.detail>>)
       ELSE out

EndpointInputs == request \in Requests /\ response = None

\* one POST /process
CallProcessTryon ==
  /\ pc = "posted"
  /\ pc' = "responded"
  /\ response' = ProcessTryon(request)
  /\ UNCHANGED request
  /\ UNCHANGED filterVars
  /\ UNCHANGED overlayVars
  /\ UNCHANGED landmarkVars
  /\ UNCHANGED fitVars
  /\ UNCHANGED tryOnVars
  /\ UNCHANGED compareVars
  /\ UNCHANGED detectVars
  /\ UNCHANGED sharedVars
  /\ UNCHANGED dedupVars

InitEndpoint ==
  pc = "posted" /\ EndpointInputs /\ FilterIdle /\ OverlayIdle /\ LandmarkIdle
  /\ FitIdle /\ TryOnIdle /\ CompareIdle /\ DetectIdle /\ SharedIdle /\ DedupIdle

NextEndpoint == CallProcessTryon

SpecEndpoint == InitEndpoint /\ [][NextEndpoint]_vars

\* the request fails validation: a category outside the three, a user image
\* that does not decode, or no product image for clothing or glasses
ValidationFails ==
  \/ request.category \notin Categories
  \/ ~request.image_decodes
  \/ request.category \in {"clothing", "glasses"} /\ ~request.product_image

\* C30 as stated: a request that fails validation is answered 400, and 500 is
\* answered only when processing itself fails.  Violated: the 400 raised
\* inside the try block is caught by `except Exception` and answered as 500.
C30_Original ==
  pc = "responded" =>
    /\ ValidationFails => response.status_code = 400
    /\ response.status_code = 500 =>
         ~ValidationFails /\ request.processing \in {"none", "raises"}

====
